---- MODULE Spec2Model ----
(***************************************************************************)
(* Session and routing engine of the support relay bot (src/main.py).      *)
(*                                                                         *)
(* The tables of the database are the state: users, groups, messages,      *)
(* group_messages, admin_sessions, user_queue, auto_replies, plus the      *)
(* in-memory admin_state map and the asyncio session_lock.  Handlers are   *)
(* coroutines of one event loop: a handler runs up to an await             *)
(* that really suspends (a platform call, a media download, a contended    *)
(* lock), so one action is the code between two such awaits.  A handler    *)
(* suspended at an await is a continuation record in the bag `tasks`.      *)
(* end_live_session is further split at each db.commit(): the committed    *)
(* intermediate tables are states, and `running` names the coroutine that  *)
(* holds the event loop in between, which no other handler can interleave. *)
(* Timestamps: user_queue.created_at is a logical clock that every insert  *)
(* advances; ended_at is kept as "is set" (TRUE) or NULL (FALSE), because  *)
(* no code reads its value.                                                *)
(***************************************************************************)
EXTENDS Integers, Sequences, FiniteSets, Bags, TLC

VARIABLES users, groups, group_messages, messages, sessions, queue, clock,
          auto_replies, admin_state, session_lock, tasks, running, out

vars == <<users, groups, group_messages, messages, sessions, queue, clock,
          auto_replies, admin_state, session_lock, tasks, running, out>>

dbvars == <<users, groups, group_messages, messages, sessions, queue, clock,
            auto_replies>>

(***************************************************************************)
(* Bounds of the model: the rows of each table, the value of the clock and *)
(* the number of suspended handlers a specification admits.                *)
(***************************************************************************)
MaxUsers == 2
MaxMsgs == 2
MaxSessions == 2
MaxClock == 3
MaxTasks == 2

\* The rows of group_messages in the specifications where the group writes
\* to become known.
MaxGroupLog == 1

\* Bounds of SpecGroup.
GrUsers == 1
GrMsgs == 1
GrSessions == 2
GrClock == 2
GrTasks == 1
GrLog == 3

\* Bounds of SpecFifo.
FifoUsers == 3
FifoMsgs == 3
FifoSessions == 3
FifoClock == 4
FifoTasks == 1

\* Bounds of SpecRoute.
RouteUsers == 2
RouteMsgs == 2
RouteSessions == 2
RouteClock == 3
RouteTasks == 2

\* Bounds of SpecPanel.
PanelUsers == 2
PanelMsgs == 3
PanelSessions == 2
PanelClock == 3
PanelTasks == 1

\* Bounds of SpecBroadcast.
BcUsers == 3
BcMsgs == 2
BcSessions == 1
BcClock == 3
BcTasks == 2

\* Bounds of SpecState.
StUsers == 2
StMsgs == 2
StSessions == 1
StClock == 2
StTasks == 2

\* Bounds of SpecServe.  ServeSessions leaves room for a handoff of every
\* stored message on top of the sessions the admins start themselves.
ServeUsers == 3
ServeMsgs == 3
ServeSessions == 5
ServeClock == 4
ServeTasks == 1

\* Bounds of SpecSeen.
SeenUsers == 2
SeenMsgs == 2
SeenSessions == 2
SeenClock == 3
SeenTasks == 1

\* Bounds of SpecPersist.
PsLog == 2
PsUsers == 1
PsMsgs == 1
PsSessions == 2
PsClock == 2
PsTasks == 1

\* Bounds of SpecIdentity.
IdUsers == 3
IdMsgs == 3
IdSessions == 2
IdClock == 4
IdTasks == 1

(***************************************************************************)
(* Actors and inputs.                                                      *)
(***************************************************************************)
ADMIN_IDS == {1, 2}
PlatIds == {11, 12, 13}
GroupChats == {21}

\* Group row ids a select_group_<id> button may carry.
GroupIds == {1, 2}

NULL == 0
NoText == <<>>

\* callback_data of the buttons: select_group_<id> carries a group row id.
Callbacks ==
    {[data |-> "select_group", group_id |-> g] : g \in GroupIds}
    \cup {[data |-> d, group_id |-> NULL] :
             d \in {"end_live", "confirm_delete_all", "view_user",
                    "delete_user", "start_live", "broadcast",
                    "add_auto_reply", "delete_auto_reply"}}

\* Platform usernames each non-admin account may carry on an update.
TgUsernames == [p \in PlatIds |->
                  CASE p = 11 -> {<<"A", "l">>}
                    [] p = 12 -> {<<"b", "o">>}
                    [] OTHER  -> {NoText}]

\* The same accounts over a longer time: account 12 gives up the username
\* "bo" for "al", which account 11 carries later as "Al" (a username
\* belongs to one account at a time, not for ever).
RenamedUsernames == [p \in PlatIds |->
                       CASE p = 11 -> {<<"A", "l">>}
                         [] p = 12 -> {<<"b", "o">>, <<"a", "l">>}
                         [] OTHER  -> {NoText}]

\* Usernames an admin may type as the reply to a username prompt.
TypedUsernames == {<<"@", "a", "l">>, <<"b", "o">>}

\* The command of the leaderboard, and the texts of group messages.
LeaderboardCommand ==
    <<"/", "l", "e", "a", "d", "e", "r", "b", "o", "a", "r", "d">>

GroupTexts ==
    {NoText, <<"h", "i">>, LeaderboardCommand, LeaderboardCommand \o <<" ">>,
     <<"/", "l", "e", "a", "d">>}

\* Keywords and reply texts an admin may type in the auto reply menu.
Keywords == {<<"H", "E">>, <<"l", "p">>}

ReplyTexts == {<<"o", "k">>}

\* Texts (or captions) of inbound messages; NoText is a media message
\* without caption.
Texts == {<<"h", "i">>, <<"H", "e", "l", "p">>}

(***************************************************************************)
(* Strings are sequences of characters.                                    *)
(***************************************************************************)
LowerChar(c) ==
    CASE c = "A" -> "a"
      [] c = "E" -> "e"
      [] c = "H" -> "h"
      [] OTHER   -> c

\* str.lower()
Lower(s) == [i \in DOMAIN s |-> LowerChar(s[i])]

\* str.lstrip("@")
RECURSIVE LStripAt(_)
LStripAt(s) == IF s # <<>> /\ Head(s) = "@" THEN LStripAt(Tail(s)) ELSE s

\* Python's `kw in text`
IsSubstring(kw, text) ==
    \E i \in 0..(Len(text) - Len(kw)) :
        \A j \in 1..Len(kw) : text[i + j] = kw[j]

Min(S) == CHOOSE x \in S : \A y \in S : x <= y

\* Ids of the rows of table T that satisfy P; .first() is the lowest id.
First(I) == IF I = {} THEN NULL ELSE Min(I)

(***************************************************************************)
(* Rows.                                                                   *)
(***************************************************************************)
UserRow(tid, uname) == [telegram_id |-> tid, username |-> uname]

MessageRow(uid, fromAdmin, seen) ==
    [user_id |-> uid, from_admin |-> fromAdmin, seen_by_admin |-> seen]

\* AdminSession(...) without session_type: the column default, "user".
SessionRowDefaultType(a, uid, gid, type) ==
    [admin_id |-> a, active_user_id |-> uid, active_group_id |-> gid,
     session_type |-> "user", is_active |-> TRUE, ended_at |-> FALSE]

\* AdminSession(...): session_type defaults to "user", ended_at to NULL.
SessionRow(a, uid, gid, type) ==
    [admin_id |-> a, active_user_id |-> uid, active_group_id |-> gid,
     session_type |-> type, is_active |-> TRUE, ended_at |-> FALSE]

QueueRow(uid, now) == [user_id |-> uid, created_at |-> now]

\* A handler suspended at an await, or holding the event loop (running).
\* actor: the admin or account of the update; uid, sid, text: the handler's
\* locals (a user row id, a session row id, the text carried).
Task(pc, actor, uid, sid, text) ==
    [pc |-> pc, actor |-> actor, uid |-> uid, sid |-> sid, text |-> text]

NoTask == Task("idle", NULL, NULL, NULL, NoText)

\* What the last step reported or sent: res names the reply or the send,
\* actor the admin who is answered, uid the user row it is about, to the
\* admin a message is forwarded to, sid the session row the step ended,
\* reply the auto_replies row whose reply was sent.
Out(res, actor, uid, to) ==
    [res |-> res, actor |-> actor, uid |-> uid, to |-> to, sid |-> NULL,
     reply |-> NULL]

OutEnded(res, actor, uid, sid) ==
    [res |-> res, actor |-> actor, uid |-> uid, to |-> NULL, sid |-> sid,
     reply |-> NULL]

\* message.reply_text(reply_text) of auto_replies row ar to user row uid.
OutReply(uid, ar) ==
    [res |-> "auto_reply", actor |-> NULL, uid |-> uid, to |-> NULL,
     sid |-> NULL, reply |-> ar]

\* handle_broadcast_message suspended in the send to recipients[uid]:
\* recipients are the telegram_ids of db.query(User).all(), in row order.
BroadcastTask(actor, recipients, i, success_count, fail_count) ==
    [pc |-> "broadcast_send", actor |-> actor, uid |-> i, sid |-> NULL,
     text |-> NoText, recipients |-> recipients,
     success_count |-> success_count, fail_count |-> fail_count]

\* The outcome of the send to user row uid of a broadcast of admin actor,
\* the counts so far, and whether the loop is over and the counts are
\* reported ("Broadcast complete! Sent: ... Failed: ...").
OutBroadcast(res, actor, uid, sent, failed, done) ==
    [res |-> res, actor |-> actor, uid |-> uid, to |-> NULL, sid |-> NULL,
     reply |-> NULL, sent |-> sent, failed |-> failed, done |-> done]

\* A step whose reply the properties do not use.
NoOut == Out("none", NULL, NULL, NULL)

NoState == [awaiting |-> "none", keyword |-> NoText]

(***************************************************************************)
(* Queries and updates of the tables.                                      *)
(***************************************************************************)
\* get_active_session without the is_active filter.
get_any_session(S, admin_id) ==
    First({i \in DOMAIN S : S[i].admin_id = admin_id})

\* db.query(AdminSession).filter_by(admin_id=admin_id, is_active=True).first()
get_active_session(S, admin_id) ==
    First({i \in DOMAIN S : S[i].admin_id = admin_id /\ S[i].is_active})

\* Deactivate that sets ended_at but leaves the row active.
DeactivateKeepsActive(S, sid) == [S EXCEPT ![sid].ended_at = TRUE]

\* session.is_active = False; session.ended_at = datetime.utcnow()
Deactivate(S, sid) ==
    [S EXCEPT ![sid].is_active = FALSE, ![sid].ended_at = TRUE]

\* get_or_create_user that looks the account up by telegram_id only.
get_or_create_user_by_id(U, tg, uname) ==
    LET byId == First({i \in DOMAIN U : U[i].telegram_id = tg})
    IN  IF byId # NULL
        THEN [users |-> [U EXCEPT ![byId].username = uname], uid |-> byId]
        ELSE [users |-> Append(U, UserRow(tg, uname)), uid |-> Len(U) + 1]

\* The user row an inbound update of account tg (carrying uname) resolves to,
\* and the users table afterwards.
get_or_create_user(U, tg, uname) ==
    LET byId == First({i \in DOMAIN U : U[i].telegram_id = tg})
        byName == IF uname = NoText THEN NULL
                  ELSE First({i \in DOMAIN U :
                                /\ U[i].username # NoText
                                /\ Lower(U[i].username) = Lower(uname)
                                /\ U[i].telegram_id = NULL})
    IN  IF byId # NULL
        THEN [users |-> [U EXCEPT ![byId].username = uname], uid |-> byId]
        ELSE IF byName # NULL
        THEN [users |-> [U EXCEPT ![byName] = UserRow(tg, uname)],
              uid |-> byName]
        ELSE [users |-> Append(U, UserRow(tg, uname)), uid |-> Len(U) + 1]

\* get_or_create_group: the group row of chat tg and the table afterwards.
get_or_create_group(G, tg) ==
    LET byId == First({i \in DOMAIN G : G[i].telegram_id = tg})
    IN  IF byId # NULL
        THEN [groups |-> G, gid |-> byId]
        ELSE [groups |-> Append(G, [telegram_id |-> tg]), gid |-> Len(G) + 1]

InQueue(Q, uid) == \E e \in Q : e.user_id = uid

\* enqueue_user that replaces the row of a user who waits by a new one.
enqueue_user_restamped(Q, uid, now) ==
    {e \in Q : e.user_id # uid} \cup {QueueRow(uid, now)}

\* enqueue_user without the look-up of an existing row.
enqueue_user_always(Q, uid, now) == Q \cup {QueueRow(uid, now)}

\* enqueue_user: insert unless a row of the user exists.
enqueue_user(Q, uid, now) ==
    IF InQueue(Q, uid) THEN Q ELSE Q \cup {QueueRow(uid, now)}

\* The newest row instead of the oldest (order_by created_at descending).
newest_in_queue(Q) ==
    CHOOSE e \in Q : \A f \in Q : e.created_at >= f.created_at

\* db.query(UserQueue).order_by(UserQueue.created_at).first()
next_in_queue(Q) ==
    CHOOSE e \in Q : \A f \in Q : e.created_at <= f.created_at

\* dequeue_next_user that finds no row.
dequeue_nothing(Q) == [queue |-> Q, user_id |-> NULL]

\* dequeue_next_user: the user id returned (NULL if the queue is empty) and
\* the queue afterwards.
dequeue_next_user(Q) ==
    IF Q = {} THEN [queue |-> Q, user_id |-> NULL]
    ELSE [queue |-> Q \ {next_in_queue(Q)},
          user_id |-> next_in_queue(Q).user_id]

\* A start of a session that empties the queue.
DeleteWholeQueue(Q, uid) == {}

\* A start of a session that leaves the queue row of the user.
DeleteFromQueueNoop(Q, uid) == Q

\* db.query(UserQueue).filter_by(user_id=uid).delete()
DeleteFromQueue(Q, uid) == {e \in Q : e.user_id # uid}

\* The messages of every user are marked seen.
MarkSeenAll(M, uid) ==
    [i \in DOMAIN M |->
        IF ~M[i].from_admin THEN [M[i] EXCEPT !.seen_by_admin = TRUE]
        ELSE M[i]]

\* The backlog of the user is left unseen.
MarkSeenNoop(M, uid) == M

\* Message rows of a user from the user (from_admin = False) marked seen.
MarkSeen(M, uid) ==
    [i \in DOMAIN M |->
        IF M[i].user_id = uid /\ ~M[i].from_admin
        THEN [M[i] EXCEPT !.seen_by_admin = TRUE] ELSE M[i]]

\* check_auto_reply that goes on to the last matching row.
check_auto_reply_last(AR, text) ==
    LET I == {i \in DOMAIN AR :
                 IsSubstring(Lower(AR[i].keyword), Lower(text))}
    IN  IF text = NoText \/ I = {} THEN NULL
        ELSE CHOOSE i \in I : \A j \in I : j <= i

\* check_auto_reply that compares keyword and text as they are spelled.
check_auto_reply_cased(AR, text) ==
    IF text = NoText THEN NULL
    ELSE First({i \in DOMAIN AR : IsSubstring(AR[i].keyword, text)})

\* check_auto_reply: id of the first auto reply whose keyword matches, or NULL.
check_auto_reply(AR, text) ==
    IF text = NoText THEN NULL
    ELSE First({i \in DOMAIN AR :
                   IsSubstring(Lower(AR[i].keyword), Lower(text))})

\* The scan compares the admin of the session, not its user, with the user.
ClaimersByAdminId(S, uid) ==
    {a \in ADMIN_IDS :
        LET sid == get_active_session(S, a)
        IN  sid # NULL /\ S[sid].admin_id = uid}

\* The admins whose active session is over user uid (handle_user_message's
\* scan of ADMIN_IDS).
Claimers(S, uid) ==
    {a \in ADMIN_IDS :
        LET sid == get_active_session(S, a)
        IN  sid # NULL /\ S[sid].active_user_id = uid}

Loop == running = NoTask

Suspend(t) == tasks' = tasks (+) SetToBag({t})

Resume(t) ==
    /\ BagIn(t, tasks)
    /\ tasks' = tasks (-) SetToBag({t})

(***************************************************************************)
(* Inbound private message of a non-admin: handle_user_message.            *)
(***************************************************************************)
\* The scan of ADMIN_IDS without its `return`: the message is forwarded
\* and the handler goes on to enqueue the user and to look for an auto reply.
RouteUserMessageNoReturn(uid, text) ==
    /\ messages' = Append(messages,
                          MessageRow(uid, FALSE, Claimers(sessions, uid) # {}))
    /\ queue' = enqueue_user(queue, uid, clock)
    /\ clock' = IF queue' = queue THEN clock ELSE clock + 1
    /\ IF Claimers(sessions, uid) # {}
       THEN \E a \in Claimers(sessions, uid) :
                out' = Out("forward", NULL, uid, a)
       ELSE out' = IF check_auto_reply(auto_replies, text) # NULL
                   THEN OutReply(uid, check_auto_reply(auto_replies, text))
                   ELSE Out("no_reply", NULL, uid, NULL)

\* From the Message insert to the reply: no await suspends in between.
\* The message of user row uid (account p) is stored, then either forwarded
\* to the first admin of the scan whose active session is over uid, or the
\* user is enqueued and the auto replies are consulted.  The scan follows
\* the iteration order of the set ADMIN_IDS, which the code does not fix:
\* any claiming admin may be the first.
RouteUserMessage(uid, text) ==
    /\ IF Claimers(sessions, uid) # {}
       THEN /\ messages' = Append(messages, MessageRow(uid, FALSE, TRUE))
            /\ \E a \in Claimers(sessions, uid) :
                   out' = Out("forward", NULL, uid, a)
            /\ UNCHANGED <<queue, clock>>
       ELSE /\ messages' = Append(messages, MessageRow(uid, FALSE, FALSE))
            /\ queue' = enqueue_user(queue, uid, clock)
            /\ clock' = IF queue' = queue THEN clock ELSE clock + 1
            /\ out' = IF check_auto_reply(auto_replies, text) # NULL
                      THEN OutReply(uid, check_auto_reply(auto_replies, text))
                      ELSE Out("no_reply", NULL, uid, NULL)

\* A message without photo, video, voice or document: nothing is downloaded.
handle_user_message(p, uname, text) ==
    /\ Loop
    /\ LET r == get_or_create_user(users, p, uname)
       IN  /\ users' = r.users
           /\ RouteUserMessage(r.uid, text)
    /\ UNCHANGED <<groups, group_messages, sessions, auto_replies, admin_state,
               session_lock, tasks, running>>

\* A media message: the handler suspends in download_file after the user
\* row is resolved.
handle_user_message_media(p, uname, caption) ==
    /\ Loop
    /\ LET r == get_or_create_user(users, p, uname)
       IN  /\ users' = r.users
           /\ Suspend(Task("hum_download", p, r.uid, NULL, caption))
           /\ out' = NoOut
    /\ UNCHANGED <<groups, group_messages, messages, sessions, queue, clock,
               auto_replies, admin_state, session_lock, running>>

\* download_file returned: the rest of handle_user_message.
handle_user_message_downloaded ==
    /\ Loop
    /\ \E t \in BagToSet(tasks) :
          /\ t.pc = "hum_download"
          /\ Resume(t)
          /\ RouteUserMessage(t.uid, t.text)
    /\ UNCHANGED <<users, groups, group_messages, sessions, auto_replies,
               admin_state, session_lock, running>>

(***************************************************************************)
(* Inbound group message: handle_group_message.                            *)
(***************************************************************************)
\* The scan takes any admin with a group session, whatever the group.
GroupClaimersAnyGroup(S, gid) ==
    {a \in ADMIN_IDS :
        LET sid == get_active_session(S, a)
        IN  sid # NULL /\ S[sid].session_type = "group"}

\* The admins whose active session is a group session over group gid.
GroupClaimers(S, gid) ==
    {a \in ADMIN_IDS :
        LET sid == get_active_session(S, a)
        IN  /\ sid # NULL
            /\ S[sid].session_type = "group"
            /\ S[sid].active_group_id = gid}

\* GroupMessage(group_id=..., user_id=..., text=...)
GroupMessageRow(gid, uid) == [group_id |-> gid, user_id |-> uid]

\* str.startswith
StartsWith(s, prefix) ==
    /\ Len(prefix) <= Len(s)
    /\ \A i \in 1..Len(prefix) : s[i] = prefix[i]

\* A message of account p in group chat `chat`.  Without text the handler
\* returns at once.  Otherwise the message is logged; the first admin of
\* the scan whose active session is a group session over the group gets
\* it, and the handler returns; if there is none, '/leaderboard...' is
\* answered by show_leaderboard, which only reads.
handle_group_message(chat, p, text) ==
    /\ Loop
    /\ IF text = NoText
       THEN /\ out' = NoOut
            /\ UNCHANGED <<groups, group_messages>>
       ELSE LET r == get_or_create_group(groups, chat)
            IN  /\ groups' = r.groups
                /\ group_messages' =
                      Append(group_messages, GroupMessageRow(r.gid, p))
                /\ IF GroupClaimers(sessions, r.gid) # {}
                   THEN \E a \in GroupClaimers(sessions, r.gid) :
                            out' = Out("group_forward", NULL, r.gid, a)
                   ELSE IF StartsWith(text, LeaderboardCommand)
                   THEN out' = Out("leaderboard", NULL, r.gid, NULL)
                   ELSE out' = NoOut
    /\ UNCHANGED <<users, messages, sessions, queue, clock, auto_replies,
                   admin_state, session_lock, tasks, running>>

(***************************************************************************)
(* Control panel: callback_query_handler of an admin.                      *)
(***************************************************************************)
\* data = "select_group_<id>"
start_group_session(a, group_id) ==
    /\ Loop
    /\ IF group_id \notin DOMAIN groups
       THEN /\ out' = Out("group_not_found", a, NULL, NULL)
            /\ UNCHANGED sessions
       ELSE /\ LET existing == get_active_session(sessions, a)
                   S1 == IF existing # NULL
                         THEN Deactivate(sessions, existing) ELSE sessions
               IN  sessions' = Append(S1, SessionRow(a, NULL, group_id, "group"))
            /\ out' = OutEnded("group_started", a, NULL,
                                get_active_session(sessions, a))
    /\ UNCHANGED <<users, groups, group_messages, messages, queue, clock,
               auto_replies, admin_state, session_lock, tasks, running>>

\* data = "start_live", "delete_user", ...: the next message of the admin is
\* awaited as the argument.
callback_set_state(a, awaiting) ==
    /\ Loop
    /\ admin_state' = [admin_state EXCEPT ![a] =
                          [awaiting |-> awaiting, keyword |-> NoText]]
    /\ out' = NoOut
    /\ UNCHANGED <<dbvars, session_lock, tasks, running>>

\* A purge that ends the sessions of the admin who pressed the button only.
delete_all_chats_own_sessions(a) ==
    /\ Loop
    /\ messages' = <<>>
    /\ queue' = {}
    /\ sessions' = [i \in DOMAIN sessions |->
                      IF sessions[i].admin_id = a
                      THEN [sessions[i] EXCEPT !.is_active = FALSE,
                                               !.ended_at = TRUE]
                      ELSE sessions[i]]
    /\ out' = Out("all_deleted", a, NULL, NULL)
    /\ UNCHANGED <<users, groups, group_messages, clock, auto_replies,
                   admin_state, session_lock, tasks, running>>

\* A purge that leaves the queue.
delete_all_chats_keeps_queue(a) ==
    /\ Loop
    /\ messages' = <<>>
    /\ sessions' = [i \in DOMAIN sessions |->
                      [sessions[i] EXCEPT !.is_active = FALSE,
                                          !.ended_at = TRUE]]
    /\ out' = Out("all_deleted", a, NULL, NULL)
    /\ UNCHANGED <<users, groups, group_messages, queue, clock, auto_replies,
                   admin_state, session_lock, tasks, running>>

\* data = "confirm_delete_all"
delete_all_chats(a) ==
    /\ Loop
    /\ messages' = <<>>
    /\ queue' = {}
    /\ sessions' = [i \in DOMAIN sessions |->
                      [sessions[i] EXCEPT !.is_active = FALSE,
                                          !.ended_at = TRUE]]
    /\ out' = Out("all_deleted", a, NULL, NULL)
    /\ UNCHANGED <<users, groups, group_messages, clock, auto_replies,
               admin_state, session_lock, tasks, running>>

\* What the next message of the admin is awaited as, by button.
AwaitingOf(data) ==
    CASE data = "view_user"         -> "username_view"
      [] data = "delete_user"       -> "username_delete"
      [] data = "start_live"        -> "username_live"
      [] data = "broadcast"         -> "broadcast"
      [] data = "add_auto_reply"    -> "auto_reply_keyword"
      [] data = "delete_auto_reply" -> "auto_reply_delete_keyword"

\* async with session_lock; get_active_session; deactivate; commit.
end_live_session(a) ==
    /\ Loop
    /\ ~session_lock
    /\ session_lock' = TRUE
    /\ LET session == get_active_session(sessions, a)
       IN  IF session = NULL
           THEN /\ out' = Out("no_active_session", a, NULL, NULL)
                /\ Suspend(Task("end_reply", a, NULL, NULL, NoText))
                /\ UNCHANGED <<sessions, running>>
           ELSE /\ sessions' = Deactivate(sessions, session)
                /\ running' = Task("end_dequeue", a, NULL, session, NoText)
                /\ out' = NoOut
                /\ UNCHANGED tasks
    /\ UNCHANGED <<users, groups, group_messages, messages, queue, clock,
               auto_replies, admin_state>>

\* next_user_id = await dequeue_next_user(db)
end_live_session_dequeue ==
    /\ running.pc = "end_dequeue"
    /\ LET r == dequeue_next_user(queue)
       IN  /\ queue' = r.queue
           /\ IF r.user_id # NULL /\ r.user_id \in DOMAIN users
              THEN /\ running' = [running EXCEPT !.pc = "end_activate",
                                                 !.uid = r.user_id]
                   /\ out' = NoOut
                   /\ UNCHANGED tasks
              ELSE /\ running' = NoTask
                   /\ out' = OutEnded("no_users_in_queue", running.actor,
                                      NULL, running.sid)
                   /\ Suspend(Task("end_reply", running.actor, NULL,
                                    NULL, NoText))
    /\ UNCHANGED <<users, groups, group_messages, messages, sessions, clock,
               auto_replies, admin_state, session_lock>>

\* new_session = AdminSession(...); db.add(new_session); db.commit()
end_live_session_activate ==
    /\ running.pc = "end_activate"
    /\ sessions' = Append(sessions,
                          SessionRow(running.actor, running.uid, NULL, "user"))
    /\ running' = [running EXCEPT !.pc = "end_mark_seen"]
    /\ out' = NoOut
    /\ UNCHANGED <<users, groups, group_messages, messages, queue, clock,
               auto_replies, admin_state, session_lock, tasks>>

\* The unread messages of the user are marked seen and committed; the
\* handoff is reported (reply_text, awaited under the lock).
end_live_session_mark_seen ==
    /\ running.pc = "end_mark_seen"
    /\ messages' = MarkSeen(messages, running.uid)
    /\ running' = NoTask
    /\ out' = OutEnded("handoff", running.actor, running.uid, running.sid)
    /\ Suspend(Task("end_reply", running.actor, NULL, NULL, NoText))
    /\ UNCHANGED <<users, groups, group_messages, sessions, queue, clock,
               auto_replies, admin_state, session_lock>>

\* reply_text returned: the lock is released.
end_live_session_return ==
    /\ Loop
    /\ \E t \in BagToSet(tasks) :
          /\ t.pc = "end_reply"
          /\ Resume(t)
          /\ out' = NoOut
    /\ session_lock' = FALSE
    /\ UNCHANGED <<dbvars, admin_state, running>>

(***************************************************************************)
(* callback_query_handler: the button q pressed by account user_id.        *)
(***************************************************************************)
\* The dispatch on query.data.
CallbackDispatch(user_id, q) ==
    CASE q.data = "select_group" -> start_group_session(user_id, q.group_id)
      [] q.data = "confirm_delete_all" -> delete_all_chats(user_id)
      [] q.data = "end_live" -> end_live_session(user_id)
      [] OTHER -> callback_set_state(user_id, AwaitingOf(q.data))

\* callback_query_handler without the look-up of the sender in ADMIN_IDS;
\* admin_state[user_id] = {...} adds the key of a sender who has none.
callback_query_handler_open(user_id, q) ==
    IF user_id \in ADMIN_IDS \/ q.data \in {"select_group", "end_live",
                                             "confirm_delete_all"}
    THEN CallbackDispatch(user_id, q)
    ELSE /\ Loop
         /\ admin_state' = [x \in DOMAIN admin_state \cup {user_id} |->
                               IF x = user_id
                               THEN [awaiting |-> AwaitingOf(q.data),
                                     keyword |-> NoText]
                               ELSE admin_state[x]]
         /\ out' = NoOut
         /\ UNCHANGED <<dbvars, session_lock, tasks, running>>

callback_query_handler(user_id, q) ==
    IF user_id \notin ADMIN_IDS
    THEN /\ Loop
         /\ out' = Out("unauthorized", user_id, NULL, NULL)
         /\ UNCHANGED <<dbvars, admin_state, session_lock, tasks, running>>
    ELSE CallbackDispatch(user_id, q)

(***************************************************************************)
(* A private message of an admin: handle_admin_message, by admin_state.    *)
(***************************************************************************)
\* handle_start_live_username that replaces the active session of the admin
\* instead of refusing.
StartLiveReplaces(a, typed) ==
    LET username == LStripAt(typed)
        existing_session == get_active_session(sessions, a)
        found == First({i \in DOMAIN users :
                          /\ users[i].username # NoText
                          /\ Lower(users[i].username) = Lower(username)})
        U1 == IF found = NULL
              THEN Append(users, UserRow(NULL, username)) ELSE users
        uid == IF found = NULL THEN Len(users) + 1 ELSE found
        S1 == IF existing_session # NULL
              THEN Deactivate(sessions, existing_session) ELSE sessions
    IN  /\ users' = U1
        /\ sessions' = Append(S1, SessionRow(a, uid, NULL, "user"))
        /\ queue' = DeleteFromQueue(queue, uid)
        /\ messages' = MarkSeen(messages, uid)
        /\ out' = Out(IF U1[uid].telegram_id = NULL
                      THEN "started_not_contacted" ELSE "started",
                      a, uid, NULL)

\* handle_start_live_username that looks the username up as typed (the
\* filter_by of handle_delete_username) instead of comparing lower cases.
StartLiveExactMatch(a, typed) ==
    LET username == LStripAt(typed)
        existing_session == get_active_session(sessions, a)
        found == First({i \in DOMAIN users : users[i].username = username})
        U1 == IF found = NULL
              THEN Append(users, UserRow(NULL, username)) ELSE users
        uid == IF found = NULL THEN Len(users) + 1 ELSE found
    IN  IF existing_session # NULL
        THEN /\ out' = Out("already_active", a, NULL, NULL)
             /\ UNCHANGED <<users, sessions, queue, messages>>
        ELSE /\ users' = U1
             /\ sessions' = Append(sessions, SessionRow(a, uid, NULL, "user"))
             /\ queue' = DeleteFromQueue(queue, uid)
             /\ messages' = MarkSeen(messages, uid)
             /\ out' = Out(IF U1[uid].telegram_id = NULL
                           THEN "started_not_contacted" ELSE "started",
                           a, uid, NULL)

\* handle_start_live_username that does not read the active session of the
\* admin before it activates the new one.
StartLiveUnchecked(a, typed) ==
    LET username == LStripAt(typed)
        found == First({i \in DOMAIN users :
                          /\ users[i].username # NoText
                          /\ Lower(users[i].username) = Lower(username)})
        U1 == IF found = NULL
              THEN Append(users, UserRow(NULL, username)) ELSE users
        uid == IF found = NULL THEN Len(users) + 1 ELSE found
    IN  /\ users' = U1
        /\ sessions' = Append(sessions, SessionRow(a, uid, NULL, "user"))
        /\ queue' = DeleteFromQueue(queue, uid)
        /\ messages' = MarkSeen(messages, uid)
        /\ out' = Out(IF U1[uid].telegram_id = NULL
                      THEN "started_not_contacted" ELSE "started",
                      a, uid, NULL)

\* handle_start_live_username under session_lock, up to its reply.
StartLive(a, typed) ==
    LET username == LStripAt(typed)
        existing_session == get_active_session(sessions, a)
        found == First({i \in DOMAIN users :
                          /\ users[i].username # NoText
                          /\ Lower(users[i].username) = Lower(username)})
        U1 == IF found = NULL
              THEN Append(users, UserRow(NULL, username)) ELSE users
        uid == IF found = NULL THEN Len(users) + 1 ELSE found
    IN  IF existing_session # NULL
        THEN /\ out' = Out("already_active", a, NULL, NULL)
             /\ UNCHANGED <<users, sessions, queue, messages>>
        ELSE /\ users' = U1
             /\ sessions' = Append(sessions, SessionRow(a, uid, NULL, "user"))
             /\ queue' = DeleteFromQueue(queue, uid)
             /\ messages' = MarkSeen(messages, uid)
             /\ out' = Out(IF U1[uid].telegram_id = NULL
                           THEN "started_not_contacted" ELSE "started",
                           a, uid, NULL)

\* admin_state[a] awaits "username_live": the lock is free and the handler
\* runs through to its reply, or it suspends on the lock.
handle_start_live_username(a, typed) ==
    /\ Loop
    /\ admin_state[a].awaiting = "username_live"
    /\ IF session_lock
       THEN /\ Suspend(Task("start_live_lock", a, NULL, NULL, typed))
            /\ out' = NoOut
            /\ UNCHANGED <<users, sessions, queue, messages, session_lock>>
       ELSE /\ Suspend(Task("start_live_reply", a, NULL, NULL, NoText))
            /\ session_lock' = TRUE
            /\ StartLive(a, typed)
    /\ UNCHANGED <<groups, group_messages, clock, auto_replies, admin_state,
               running>>

\* The lock is granted to a handler that waited for it.
handle_start_live_username_locked ==
    /\ Loop
    /\ ~session_lock
    /\ \E t \in BagToSet(tasks) :
          /\ t.pc = "start_live_lock"
          /\ tasks' = (tasks (-) SetToBag({t}))
                         (+) SetToBag({Task("start_live_reply", t.actor,
                                            NULL, NULL, NoText)})
          /\ StartLive(t.actor, t.text)
    /\ session_lock' = TRUE
    /\ UNCHANGED <<groups, group_messages, clock, auto_replies, admin_state,
               running>>

\* reply_text returned: the lock is released, the handler returns and
\* handle_admin_message runs `del admin_state[admin_id]` (a KeyError when
\* the entry is gone already).
handle_start_live_username_return ==
    /\ Loop
    /\ \E t \in BagToSet(tasks) :
          /\ t.pc = "start_live_reply"
          /\ Resume(t)
          /\ out' = IF admin_state[t.actor] = NoState
                    THEN Out("key_error", t.actor, NULL, NULL) ELSE NoOut
          /\ admin_state' = [admin_state EXCEPT ![t.actor] = NoState]
    /\ session_lock' = FALSE
    /\ UNCHANGED <<dbvars, running>>

\* admin_state[a] awaits "username_view": handle_view_username, which
\* matches the username exactly and writes nothing; the handler suspends in
\* its reply.
handle_view_username(a, typed) ==
    /\ Loop
    /\ admin_state[a].awaiting = "username_view"
    /\ LET username == LStripAt(typed)
           user == First({i \in DOMAIN users : users[i].username = username})
       IN  out' = Out(IF user = NULL THEN "user_not_found" ELSE "history",
                      a, user, NULL)
    /\ Suspend(Task("state_reply", a, NULL, NULL, NoText))
    /\ UNCHANGED <<dbvars, admin_state, session_lock, running>>

\* admin_state[a] awaits "username_delete": handle_delete_username, which
\* matches the username exactly; the handler suspends in its reply.
handle_delete_username(a, typed) ==
    /\ Loop
    /\ admin_state[a].awaiting = "username_delete"
    /\ LET username == LStripAt(typed)
           user == First({i \in DOMAIN users : users[i].username = username})
       IN  IF user = NULL
           THEN /\ out' = Out("user_not_found", a, NULL, NULL)
                /\ UNCHANGED <<messages, queue>>
           ELSE /\ messages' = SelectSeq(messages,
                                         LAMBDA m : m.user_id # user)
                /\ queue' = DeleteFromQueue(queue, user)
                /\ out' = Out("user_deleted", a, user, NULL)
    /\ Suspend(Task("state_reply", a, NULL, NULL, NoText))
    /\ UNCHANGED <<users, groups, group_messages, sessions, clock, auto_replies,
                   admin_state, session_lock, running>>

\* admin_state[a] awaits "auto_reply_keyword": the text is kept as the
\* keyword and the reply text is awaited; the entry is not deleted.
handle_auto_reply_keyword(a, keyword) ==
    /\ Loop
    /\ admin_state[a].awaiting = "auto_reply_keyword"
    /\ admin_state' = [admin_state EXCEPT ![a] =
                          [awaiting |-> "auto_reply_text",
                           keyword |-> keyword]]
    /\ out' = NoOut
    /\ UNCHANGED <<dbvars, session_lock, tasks, running>>

\* admin_state[a] awaits "auto_reply_text": handle_add_auto_reply replaces
\* the reply of the row with this keyword or adds a row; the handler
\* suspends in its reply.
handle_add_auto_reply(a, reply_text) ==
    /\ Loop
    /\ admin_state[a].awaiting = "auto_reply_text"
    /\ LET keyword == admin_state[a].keyword
           existing == First({i \in DOMAIN auto_replies :
                                auto_replies[i].keyword = keyword})
       IN  auto_replies' =
              IF existing # NULL
              THEN [auto_replies EXCEPT ![existing].reply_text = reply_text]
              ELSE Append(auto_replies,
                          [keyword |-> keyword, reply_text |-> reply_text])
    /\ out' = Out("auto_reply_added", a, NULL, NULL)
    /\ Suspend(Task("state_reply", a, NULL, NULL, NoText))
    /\ UNCHANGED <<users, groups, group_messages, messages, sessions, queue,
               clock, admin_state, session_lock, running>>

\* admin_state[a] awaits "auto_reply_delete_keyword":
\* handle_delete_auto_reply deletes the first row with exactly this
\* keyword; the handler suspends in its reply.
handle_delete_auto_reply(a, keyword) ==
    /\ Loop
    /\ admin_state[a].awaiting = "auto_reply_delete_keyword"
    /\ LET auto_reply == First({i \in DOMAIN auto_replies :
                                  auto_replies[i].keyword = keyword})
       IN  IF auto_reply = NULL
           THEN /\ out' = Out("auto_reply_not_found", a, NULL, NULL)
                /\ UNCHANGED auto_replies
           ELSE /\ auto_replies' =
                      [i \in 1..(Len(auto_replies) - 1) |->
                          IF i < auto_reply THEN auto_replies[i]
                          ELSE auto_replies[i + 1]]
                /\ out' = Out("auto_reply_deleted", a, NULL, NULL)
    /\ Suspend(Task("state_reply", a, NULL, NULL, NoText))
    /\ UNCHANGED <<users, groups, group_messages, messages, sessions, queue,
               clock, admin_state, session_lock, running>>

\* The reply of one of these handlers was sent: the handler returns and
\* handle_admin_message runs `del admin_state[admin_id]` (a KeyError when
\* the entry is gone already).
handle_admin_state_return ==
    /\ Loop
    /\ \E t \in BagToSet(tasks) :
          /\ t.pc = "state_reply"
          /\ Resume(t)
          /\ out' = IF admin_state[t.actor] = NoState
                    THEN Out("key_error", t.actor, NULL, NULL) ELSE NoOut
          /\ admin_state' = [admin_state EXCEPT ![t.actor] = NoState]
    /\ UNCHANGED <<dbvars, session_lock, running>>

(***************************************************************************)
(* handle_admin_message without a pending admin_state: the message goes    *)
(* to the counterparty of the active session of the admin.                 *)
(***************************************************************************)
\* The session is looked at whatever admin_state holds.
PendingStateIgnored(a) == TRUE

\* admin_id is not in admin_state: none of the branches of the pending
\* states is taken.
NoPendingState(a) == admin_state[a].awaiting = "none"

\* The active session of the admin is a group session over a known group.
GroupSession(S, G, sid) ==
    /\ sid # NULL
    /\ S[sid].session_type = "group"
    /\ S[sid].active_group_id # NULL
    /\ S[sid].active_group_id \in DOMAIN G

\* The active session of the admin is over a known user.
UserSession(S, U, sid) ==
    /\ sid # NULL
    /\ S[sid].active_user_id # NULL
    /\ S[sid].active_user_id \in DOMAIN U

\* handle_admin_message that sends to the user without looking at
\* user.telegram_id.
handle_admin_message_sends_anyway(a) ==
    /\ Loop
    /\ NoPendingState(a)
    /\ LET session == get_active_session(sessions, a)
       IN  IF GroupSession(sessions, groups, session)
           THEN /\ Suspend(Task("ham_group_send", a, NULL, NULL, NoText))
                /\ out' = NoOut
                /\ UNCHANGED messages
           ELSE IF UserSession(sessions, users, session)
           THEN LET uid == sessions[session].active_user_id
                IN  /\ messages' = Append(messages, MessageRow(uid, TRUE, TRUE))
                    /\ Suspend(Task("ham_send", a, uid, NULL, NoText))
                    /\ out' = NoOut
           ELSE /\ out' = Out("no_session", a, NULL, NULL)
                /\ UNCHANGED <<messages, tasks>>
    /\ UNCHANGED <<users, groups, group_messages, sessions, queue, clock,
               auto_replies, admin_state, session_lock, running>>

\* Up to the first await that suspends: the send to the group, the send
\* to the user after the Message commit, or a reply that ends the handler.
handle_admin_message(a) ==
    /\ Loop
    /\ NoPendingState(a)
    /\ LET session == get_active_session(sessions, a)
       IN  IF GroupSession(sessions, groups, session)
           THEN /\ Suspend(Task("ham_group_send", a, NULL, NULL, NoText))
                /\ out' = NoOut
                /\ UNCHANGED messages
           ELSE IF UserSession(sessions, users, session)
           THEN LET uid == sessions[session].active_user_id
                IN  /\ messages' = Append(messages, MessageRow(uid, TRUE, TRUE))
                    /\ IF users[uid].telegram_id = NULL
                       THEN /\ out' = Out("saved_undeliverable", a, uid, NULL)
                            /\ UNCHANGED tasks
                       ELSE /\ Suspend(Task("ham_send", a, uid, NULL, NoText))
                            /\ out' = NoOut
           ELSE /\ out' = Out("no_session", a, NULL, NULL)
                /\ UNCHANGED <<messages, tasks>>
    /\ UNCHANGED <<users, groups, group_messages, sessions, queue, clock,
               auto_replies, admin_state, session_lock, running>>

\* A failed send that takes the stored Message of the admin back.
handle_admin_message_sent_rollback ==
    /\ Loop
    /\ \E t \in BagToSet(tasks) : \E ok \in BOOLEAN :
          /\ t.pc \in {"ham_send", "ham_group_send"}
          /\ Resume(t)
          /\ out' = Out(IF ~ok THEN "send_error"
                        ELSE IF t.pc = "ham_send" THEN "sent_to_user"
                        ELSE "sent_to_group", t.actor, t.uid, NULL)
          /\ messages' = IF ok THEN messages
                         ELSE SelectSeq(messages,
                                        LAMBDA m : ~(m.user_id = t.uid
                                                     /\ m.from_admin))
    /\ UNCHANGED <<users, groups, group_messages, sessions, queue, clock,
               auto_replies, admin_state, session_lock, running>>

\* The send returned or raised: the admin is told which, and the handler
\* ends.
handle_admin_message_sent ==
    /\ Loop
    /\ \E t \in BagToSet(tasks) : \E ok \in BOOLEAN :
          /\ t.pc \in {"ham_send", "ham_group_send"}
          /\ Resume(t)
          /\ out' = Out(IF ~ok THEN "send_error"
                        ELSE IF t.pc = "ham_send" THEN "sent_to_user"
                        ELSE "sent_to_group", t.actor, t.uid, NULL)
    /\ UNCHANGED <<dbvars, admin_state, session_lock, running>>

(***************************************************************************)
(* admin_state[a] awaits "broadcast": handle_broadcast_message.            *)
(***************************************************************************)
\* users = db.query(User).all(); the first send is on its way, or, with no
\* user at all, the counts are reported at once.
handle_broadcast_message(a) ==
    /\ Loop
    /\ admin_state[a].awaiting = "broadcast"
    /\ IF users = <<>>
       THEN /\ out' = OutBroadcast("broadcast_empty", a, NULL, 0, 0, TRUE)
            /\ Suspend(Task("broadcast_reply", a, NULL, NULL, NoText))
       ELSE /\ out' = NoOut
            /\ Suspend(BroadcastTask(a, [i \in DOMAIN users |->
                                            users[i].telegram_id], 1, 0, 0))
    /\ UNCHANGED <<dbvars, admin_state, session_lock, running>>

\* The outcomes of a send to chat_id: a send without chat_id raises.
SendOutcomes(chat_id) == IF chat_id = NULL THEN {FALSE} ELSE BOOLEAN

\* The next state of the loop: the next send, or the report of the counts.
BroadcastNext(t, ok) ==
    IF t.uid < Len(t.recipients)
    THEN [t EXCEPT !.uid = t.uid + 1,
                   !.success_count = IF ok THEN @ + 1 ELSE @,
                   !.fail_count = IF ok THEN @ ELSE @ + 1]
    ELSE Task("broadcast_reply", t.actor, NULL, NULL, NoText)

BroadcastOut(t, ok) ==
    OutBroadcast(IF ok THEN "broadcast_sent" ELSE "broadcast_failed",
                 t.actor, t.uid,
                 IF ok THEN t.success_count + 1 ELSE t.success_count,
                 IF ok THEN t.fail_count ELSE t.fail_count + 1,
                 t.uid = Len(t.recipients))

\* A loop without try/except: the exception of a failed send ends the
\* handler.
handle_broadcast_message_sent_aborts ==
    /\ Loop
    /\ \E t \in BagToSet(tasks) :
          /\ t.pc = "broadcast_send"
          /\ \E ok \in SendOutcomes(t.recipients[t.uid]) :
                /\ tasks' = IF ok
                            THEN (tasks (-) SetToBag({t}))
                                    (+) SetToBag({BroadcastNext(t, ok)})
                            ELSE tasks (-) SetToBag({t})
                /\ out' = IF ok THEN BroadcastOut(t, ok)
                          ELSE OutBroadcast("broadcast_failed", t.actor, t.uid,
                                            t.success_count, t.fail_count,
                                            FALSE)
    /\ UNCHANGED <<dbvars, admin_state, session_lock, running>>

\* The send to recipients[uid] returned or raised: it is counted, and the
\* loop goes on to the next user or, after the last, reports the counts.
handle_broadcast_message_sent ==
    /\ Loop
    /\ \E t \in BagToSet(tasks) :
          /\ t.pc = "broadcast_send"
          /\ \E ok \in SendOutcomes(t.recipients[t.uid]) :
                /\ tasks' = (tasks (-) SetToBag({t}))
                               (+) SetToBag({BroadcastNext(t, ok)})
                /\ out' = BroadcastOut(t, ok)
    /\ UNCHANGED <<dbvars, admin_state, session_lock, running>>

\* The report was sent: the handler returns and handle_admin_message runs
\* `del admin_state[admin_id]`.
handle_broadcast_message_return ==
    /\ Loop
    /\ \E t \in BagToSet(tasks) :
          /\ t.pc = "broadcast_reply"
          /\ Resume(t)
          /\ out' = IF admin_state[t.actor] = NoState
                    THEN Out("key_error", t.actor, NULL, NULL) ELSE NoOut
          /\ admin_state' = [admin_state EXCEPT ![t.actor] = NoState]
    /\ UNCHANGED <<dbvars, session_lock, running>>

(***************************************************************************)
(* The system.                                                             *)
(***************************************************************************)
\* The state after init_db() on a database whose auto_replies table
\* holds the rows AR.
InitWith(AR) ==
    /\ users = <<>>
    /\ groups = <<>>
    /\ group_messages = <<>>
    /\ messages = <<>>
    /\ sessions = <<>>
    /\ queue = {}
    /\ clock = 1
    /\ auto_replies = AR
    /\ admin_state = [a \in ADMIN_IDS |-> NoState]
    /\ session_lock = FALSE
    /\ tasks = EmptyBag
    /\ running = NoTask
    /\ out = NoOut

Init == InitWith(<<>>)

(***************************************************************************)
(* The tables and the number of suspended handlers grow without limit; a   *)
(* step is taken only if the state it leads to fits the bounds b of the    *)
(* specification.  A handler that goes on without suspending starts only   *)
(* if its last step fits too.                                              *)
(***************************************************************************)
Bounds(u, m, s, c, t) ==
    [users |-> u, msgs |-> m, sessions |-> s, clock |-> c, tasks |-> t]

Fits(b) ==
    /\ Len(users) <= b.users
    /\ Len(messages) <= b.msgs
    /\ Len(sessions) <= b.sessions
    /\ clock <= b.clock
    /\ BagCardinality(tasks) <= b.tasks

EndFits(b) ==
    /\ BagCardinality(tasks) < b.tasks
    /\ queue = {} \/ Len(sessions) < b.sessions

\* The events of the environment: accounts P sending texts T, admins A
\* pressing buttons and typing usernames N.
UserMessage(P, T, b) ==
    \E p \in P, text \in T :
        \E uname \in TgUsernames[p] :
            handle_user_message(p, uname, text) /\ Fits(b)'

\* Accounts P whose updates carry the usernames N[p].
UserMessageAs(P, N, T, b) ==
    \E p \in P, text \in T :
        \E uname \in N[p] :
            handle_user_message(p, uname, text) /\ Fits(b)'

UserMedia(P, T, b) ==
    \E p \in P, caption \in T :
        \E uname \in TgUsernames[p] :
            handle_user_message_media(p, uname, caption) /\ Fits(b)'

UserMediaDownloaded(b) == handle_user_message_downloaded /\ Fits(b)'

GroupMessage ==
    /\ \E chat \in GroupChats : handle_group_message(chat, 11, <<"h", "i">>)
    /\ Len(group_messages') <= MaxGroupLog

\* Accounts P writing the texts T in the group chats C.
GroupText(C, P, T, n) ==
    /\ \E chat \in C, p \in P, text \in T :
          handle_group_message(chat, p, text)
    /\ Len(group_messages') <= n

StartGroup(A, b) ==
    \E a \in A, group_id \in GroupIds :
        start_group_session(a, group_id) /\ Fits(b)'

SetState(A, W) == \E a \in A, w \in W : callback_set_state(a, w)

DeleteAll(A) == \E a \in A : delete_all_chats(a)

EndLive(A, b) == \E a \in A : end_live_session(a) /\ EndFits(b)

StartLiveUsername(A, N, b) ==
    \E a \in A, typed \in N :
        handle_start_live_username(a, typed) /\ Fits(b)'

StartLiveUsernameLocked(b) == handle_start_live_username_locked /\ Fits(b)'

\* Buttons Q pressed by the accounts U, admins or not.
Callback(U, Q, b) ==
    \E user_id \in U, q \in Q :
        /\ callback_query_handler(user_id, q)
        /\ Fits(b)'
        /\ (user_id \in ADMIN_IDS /\ q.data = "end_live") => EndFits(b)

AdminMessage(A, b) == \E a \in A : handle_admin_message(a) /\ Fits(b)'

Broadcast(A, b) == \E a \in A : handle_broadcast_message(a) /\ Fits(b)'

DeleteUsername(A, N, b) ==
    \E a \in A, typed \in N : handle_delete_username(a, typed) /\ Fits(b)'

ViewUsername(A, N, b) ==
    \E a \in A, typed \in N : handle_view_username(a, typed) /\ Fits(b)'

\* The admins A answer the prompts of the auto reply menu with keywords K
\* and reply texts R.
AutoReplyKeyword(A, K) ==
    \E a \in A, keyword \in K : handle_auto_reply_keyword(a, keyword)

AddAutoReply(A, R, b) ==
    \E a \in A, reply_text \in R :
        handle_add_auto_reply(a, reply_text) /\ Fits(b)'

DeleteAutoReply(A, K, b) ==
    \E a \in A, keyword \in K :
        handle_delete_auto_reply(a, keyword) /\ Fits(b)'

(***************************************************************************)
(* Spec: two admins, two accounts that send text messages, one group.      *)
(***************************************************************************)
B == Bounds(MaxUsers, MaxMsgs, MaxSessions, MaxClock, MaxTasks)

Next ==
    \/ UserMessage({11, 12}, {<<"h", "i">>}, B)
    \/ GroupMessage
    \/ StartGroup(ADMIN_IDS, B)
    \/ SetState(ADMIN_IDS, {"username_live"})
    \/ DeleteAll(ADMIN_IDS)
    \/ EndLive(ADMIN_IDS, B)
    \/ end_live_session_dequeue
    \/ end_live_session_activate
    \/ end_live_session_mark_seen
    \/ end_live_session_return
    \/ StartLiveUsername(ADMIN_IDS, {<<"@", "a", "l">>}, B)
    \/ StartLiveUsernameLocked(B)
    \/ handle_start_live_username_return

Spec == Init /\ [][Next]_vars

(***************************************************************************)
(* SpecFifo: one admin at the control panel, three accounts that send text *)
(* messages and fill the queue.                                            *)
(***************************************************************************)
FifoB == Bounds(FifoUsers, FifoMsgs, FifoSessions, FifoClock, FifoTasks)

NextFifo ==
    \/ UserMessage(PlatIds, {<<"h", "i">>}, FifoB)
    \/ GroupMessage
    \/ StartGroup({1}, FifoB)
    \/ SetState({1}, {"username_live"})
    \/ EndLive({1}, FifoB)
    \/ end_live_session_dequeue
    \/ end_live_session_activate
    \/ end_live_session_mark_seen
    \/ end_live_session_return
    \/ StartLiveUsername({1}, {<<"@", "a", "l">>}, FifoB)
    \/ handle_start_live_username_return

SpecFifo == Init /\ [][NextFifo]_vars

(***************************************************************************)
(* SpecRoute: the router.  Two accounts send texts and media, several at   *)
(* a time; the admins start and end user sessions; auto replies are        *)
(* configured.                                                             *)
(***************************************************************************)
RouteB == Bounds(RouteUsers, RouteMsgs, RouteSessions, RouteClock, RouteTasks)

\* An auto_replies table the admins have filled from the control panel.
ConfiguredReplies ==
    <<[keyword |-> <<"H", "E">>, reply_text |-> <<"o", "k">>],
      [keyword |-> <<"l", "p">>, reply_text |-> <<"n", "o">>]>>

InitRoute == InitWith(ConfiguredReplies)

NextRoute ==
    \/ UserMessage({11, 12}, Texts, RouteB)
    \/ UserMedia({11, 12}, {NoText, <<"H", "e", "l", "p">>}, RouteB)
    \/ UserMediaDownloaded(RouteB)
    \/ SetState(ADMIN_IDS, {"username_live"})
    \/ EndLive(ADMIN_IDS, RouteB)
    \/ end_live_session_dequeue
    \/ end_live_session_activate
    \/ end_live_session_mark_seen
    \/ end_live_session_return
    \/ StartLiveUsername(ADMIN_IDS, {<<"@", "a", "l">>}, RouteB)
    \/ StartLiveUsernameLocked(RouteB)
    \/ handle_start_live_username_return

SpecRoute == InitRoute /\ [][NextRoute]_vars

(***************************************************************************)
(* SpecPanel: the control panel and the messages of an admin.  Admin 1     *)
(* and account 11, which is no admin, press buttons; admin 1 starts        *)
(* sessions and writes to the counterparty.                                *)
(***************************************************************************)
PanelB == Bounds(PanelUsers, PanelMsgs, PanelSessions, PanelClock, PanelTasks)

\* The buttons of the sessions and of the purge.
PanelButtons ==
    {q \in Callbacks : q.data \in {"select_group", "end_live",
                                    "confirm_delete_all", "start_live"}}

NextPanel ==
    \/ UserMessage({11, 12}, {<<"h", "i">>}, PanelB)
    \/ GroupMessage
    \/ Callback({1}, PanelButtons, PanelB)
    \/ Callback({11}, Callbacks, PanelB)
    \/ end_live_session_dequeue
    \/ end_live_session_activate
    \/ end_live_session_mark_seen
    \/ end_live_session_return
    \/ StartLiveUsername({1}, {<<"@", "a", "l">>}, PanelB)
    \/ handle_start_live_username_return
    \/ AdminMessage({1}, PanelB)
    \/ handle_admin_message_sent

SpecPanel == Init /\ [][NextPanel]_vars

(***************************************************************************)
(* SpecBroadcast: admin 1 starts a session by username and broadcasts,     *)
(* also twice at a time, to the users known so far.  A send to the         *)
(* platform returns or raises: the handler that waits for one goes on.     *)
(***************************************************************************)
BcB == Bounds(BcUsers, BcMsgs, BcSessions, BcClock, BcTasks)

NextBroadcast ==
    \/ UserMessage(PlatIds, {<<"h", "i">>}, BcB)
    \/ SetState({1}, {"username_live", "broadcast"})
    \/ StartLiveUsername({1}, {<<"@", "a", "l">>}, BcB)
    \/ StartLiveUsernameLocked(BcB)
    \/ handle_start_live_username_return
    \/ Broadcast({1}, BcB)
    \/ handle_broadcast_message_sent
    \/ handle_broadcast_message_return

SpecBroadcast ==
    /\ Init
    /\ [][NextBroadcast]_vars
    /\ WF_vars(handle_broadcast_message_sent)

(***************************************************************************)
(* SpecState: the pending states of admin 1, who holds a user session,     *)
(* presses the buttons that ask for an argument and answers them, also     *)
(* while an earlier answer is still being handled.                         *)
(***************************************************************************)
StB == Bounds(StUsers, StMsgs, StSessions, StClock, StTasks)

\* The buttons that set admin_state.
StateButtons ==
    {q \in Callbacks : q.data \in {"view_user", "delete_user", "start_live",
                                    "broadcast", "add_auto_reply",
                                    "delete_auto_reply"}}

NextState ==
    \/ UserMessage({11}, {<<"h", "i">>}, StB)
    \/ Callback({1}, StateButtons, StB)
    \/ StartLiveUsername({1}, {<<"@", "a", "l">>}, StB)
    \/ StartLiveUsernameLocked(StB)
    \/ handle_start_live_username_return
    \/ ViewUsername({1}, {<<"@", "a", "l">>}, StB)
    \/ DeleteUsername({1}, {<<"A", "l">>}, StB)
    \/ AutoReplyKeyword({1}, {<<"H", "E">>})
    \/ AddAutoReply({1}, ReplyTexts, StB)
    \/ DeleteAutoReply({1}, {<<"H", "E">>}, StB)
    \/ handle_admin_state_return
    \/ Broadcast({1}, StB)
    \/ handle_broadcast_message_sent
    \/ handle_broadcast_message_return
    \/ AdminMessage({1}, StB)
    \/ handle_admin_message_sent

SpecState == Init /\ [][NextState]_vars

(***************************************************************************)
(* SpecPersist: the life of a session.  Two admins who start and end       *)
(* sessions, purge and write to their counterparty; admin 1 also uses the  *)
(* menus that ask for an argument; one account and one group write.        *)
(***************************************************************************)
PsB == Bounds(PsUsers, PsMsgs, PsSessions, PsClock, PsTasks)

NextPersist ==
    \/ UserMessage({11}, {<<"h", "i">>}, PsB)
    \/ GroupText(GroupChats, {11}, {<<"h", "i">>}, PsLog)
    \/ StartGroup(ADMIN_IDS, PsB)
    \/ SetState({1}, {"username_live", "broadcast",
                     "auto_reply_keyword", "auto_reply_delete_keyword"})
    \/ DeleteAll(ADMIN_IDS)
    \/ EndLive(ADMIN_IDS, PsB)
    \/ end_live_session_dequeue
    \/ end_live_session_activate
    \/ end_live_session_mark_seen
    \/ end_live_session_return
    \/ StartLiveUsername({1}, {<<"@", "a", "l">>}, PsB)
    \/ handle_start_live_username_return
    \/ AutoReplyKeyword({1}, {<<"H", "E">>})
    \/ AddAutoReply({1}, ReplyTexts, PsB)
    \/ DeleteAutoReply({1}, {<<"H", "E">>}, PsB)
    \/ handle_admin_state_return
    \/ Broadcast({1}, PsB)
    \/ handle_broadcast_message_sent
    \/ handle_broadcast_message_return
    \/ AdminMessage(ADMIN_IDS, PsB)
    \/ handle_admin_message_sent

SpecPersist == Init /\ [][NextPersist]_vars

(***************************************************************************)
(* SpecGroup: two group chats in which account 11 writes, texts and        *)
(* leaderboard commands; two admins start and end group sessions; admin 1  *)
(* also starts a user session; account 11 also writes in private.          *)
(***************************************************************************)
GrB == Bounds(GrUsers, GrMsgs, GrSessions, GrClock, GrTasks)

NextGroup ==
    \/ GroupText({21, 22}, {11}, GroupTexts, GrLog)
    \/ UserMessage({11}, {<<"h", "i">>}, GrB)
    \/ StartGroup(ADMIN_IDS, GrB)
    \/ SetState({1}, {"username_live"})
    \/ StartLiveUsername({1}, {<<"@", "a", "l">>}, GrB)
    \/ handle_start_live_username_return
    \/ EndLive(ADMIN_IDS, GrB)
    \/ end_live_session_dequeue
    \/ end_live_session_activate
    \/ end_live_session_mark_seen
    \/ end_live_session_return

SpecGroup == Init /\ [][NextGroup]_vars

(***************************************************************************)
(* SpecSeen: the queue and the seen flags.  Two accounts write texts and   *)
(* media; two admins start sessions by username, end them, delete the      *)
(* chat of a user and purge all chats.                                     *)
(***************************************************************************)
SeenB == Bounds(SeenUsers, SeenMsgs, SeenSessions, SeenClock, SeenTasks)

NextSeen ==
    \/ UserMessage({11, 12}, {<<"h", "i">>}, SeenB)
    \/ UserMedia({11}, {NoText}, SeenB)
    \/ UserMediaDownloaded(SeenB)
    \/ SetState(ADMIN_IDS, {"username_live", "username_delete"})
    \/ StartLiveUsername(ADMIN_IDS, TypedUsernames, SeenB)
    \/ handle_start_live_username_return
    \/ DeleteUsername(ADMIN_IDS, {<<"A", "l">>, <<"@", "b", "o">>}, SeenB)
    \/ handle_admin_state_return
    \/ DeleteAll(ADMIN_IDS)
    \/ EndLive(ADMIN_IDS, SeenB)
    \/ end_live_session_dequeue
    \/ end_live_session_activate
    \/ end_live_session_mark_seen
    \/ end_live_session_return

SpecSeen == Init /\ [][NextSeen]_vars

(***************************************************************************)
(* SpecServe: the service of the queue.  Three accounts write; the admins  *)
(* start sessions by username, a few times, and end them; nobody purges.   *)
(* An admin who is live ends the session sooner or later (the assumption   *)
(* of the no-starvation property; strong fairness, because the lock is     *)
(* taken and released in between), and the event loop resumes every        *)
(* handler whose await returns.                                            *)
(***************************************************************************)
ServeB == Bounds(ServeUsers, ServeMsgs, ServeSessions, ServeClock, ServeTasks)

\* An admin with an active session presses 'End live session'.
EndsLive ==
    \E a \in ADMIN_IDS :
        /\ get_active_session(sessions, a) # NULL
        /\ end_live_session(a)
        /\ EndFits(ServeB)

\* An admin without an active session presses it.
EndsIdle ==
    \E a \in ADMIN_IDS :
        /\ get_active_session(sessions, a) = NULL
        /\ end_live_session(a)
        /\ EndFits(ServeB)

\* The starts of the admins, as long as the handoffs of all messages still
\* fit into the table afterwards.
StartsLive ==
    /\ Len(sessions) + ServeMsgs < ServeSessions
    /\ StartLiveUsername(ADMIN_IDS, {<<"@", "a", "l">>}, ServeB)

NextServe ==
    \/ UserMessage(PlatIds, {<<"h", "i">>}, ServeB)
    \/ SetState(ADMIN_IDS, {"username_live"})
    \/ StartsLive
    \/ handle_start_live_username_return
    \/ EndsLive
    \/ EndsIdle
    \/ end_live_session_dequeue
    \/ end_live_session_activate
    \/ end_live_session_mark_seen
    \/ end_live_session_return

SpecServe ==
    /\ Init
    /\ [][NextServe]_vars
    /\ SF_vars(EndsLive)
    /\ WF_vars(end_live_session_dequeue)
    /\ WF_vars(end_live_session_activate)
    /\ WF_vars(end_live_session_mark_seen)
    /\ WF_vars(end_live_session_return)
    /\ WF_vars(handle_start_live_username_return)

(***************************************************************************)
(* SpecIdentity: the user directory.  One admin starts sessions by         *)
(* username, which creates rows without telegram_id, and accounts whose    *)
(* usernames change write to the bot.                                      *)
(***************************************************************************)
IdB == Bounds(IdUsers, IdMsgs, IdSessions, IdClock, IdTasks)

NextIdentity ==
    \/ UserMessageAs({11, 12}, RenamedUsernames, {<<"h", "i">>}, IdB)
    \/ SetState({1}, {"username_live"})
    \/ EndLive({1}, IdB)
    \/ end_live_session_dequeue
    \/ end_live_session_activate
    \/ end_live_session_mark_seen
    \/ end_live_session_return
    \/ StartLiveUsername({1}, TypedUsernames, IdB)
    \/ handle_start_live_username_return

SpecIdentity == Init /\ [][NextIdentity]_vars

(***************************************************************************)
(* Properties.                                                             *)
(***************************************************************************)
\* The active session rows of an admin.
ActiveRows(S, a) == {i \in DOMAIN S : S[i].admin_id = a /\ S[i].is_active}

\* The replies of a start of a session of an admin.
UserStartReplies == {"already_active", "started", "started_not_contacted"}

\* The step replaced the active session of admin a by a new row.
Replaced(a) ==
    /\ Len(sessions') = Len(sessions) + 1
    /\ ActiveRows(sessions', a) = {Len(sessions')}
    /\ \A i \in ActiveRows(sessions, a) :
          ~sessions'[i].is_active /\ sessions'[i].ended_at

\* C1: in every reachable state, also between the commits of a handler,
\* each admin has at most one session row with is_active = true.
C1_SingleActiveSession ==
    \A a \in ADMIN_IDS : Cardinality(ActiveRows(sessions, a)) <= 1

\* An admin holds one active session and an ended one: a session was
\* started by replacement or handed off.
C1_Witness ==
    \E a \in ADMIN_IDS :
        /\ out.actor = a
        /\ out.res \in {"group_started", "handoff"}
        /\ Cardinality(ActiveRows(sessions, a)) = 1
        /\ \E i \in DOMAIN sessions :
              sessions[i].admin_id = a /\ ~sessions[i].is_active

C3_ExclusiveCounterparty ==
    \A i, j \in DOMAIN sessions :
        (/\ sessions[i].is_active
         /\ sessions[j].is_active
         /\ sessions[i].active_user_id = sessions[j].active_user_id
         /\ sessions[i].active_group_id = sessions[j].active_group_id)
        => sessions[i].admin_id = sessions[j].admin_id

\* The created_at of the queue row of a user.
StampOf(Q, uid) == (CHOOSE e \in Q : e.user_id = uid).created_at

\* Every message of the user to the admins is seen.
BacklogSeen(M, uid) ==
    \A i \in DOMAIN M :
        (M[i].user_id = uid /\ ~M[i].from_admin) => M[i].seen_by_admin

\* Some active session is over user uid.
Claimed(S, uid) ==
    \E i \in DOMAIN S : S[i].is_active /\ S[i].active_user_id = uid

\* C5: FIFO handoff: the step of end_live_session that dequeues takes the
\* user whose queue row is the oldest; every row it leaves in the queue
\* was inserted later, so users enqueued A, B, C are handed off in that
\* order.
C5_FifoHandoff ==
    [][(running.pc = "end_dequeue" /\ running'.pc = "end_activate")
          => /\ InQueue(queue, running'.uid)
             /\ queue' = DeleteFromQueue(queue, running'.uid)
             /\ \A e \in queue' :
                   e.created_at > StampOf(queue, running'.uid)]_vars

\* Two handoffs have opened sessions in the order of arrival and a third
\* user, enqueued later than both, still waits.
C5_Witness ==
    /\ out.res = "handoff"
    /\ Len(sessions) = 3
    /\ sessions[2].active_user_id # NULL
    /\ sessions[3].active_user_id = out.uid
    /\ sessions[2].active_user_id < out.uid
    /\ \E e \in queue : e.user_id > out.uid

\* C7: no user is both in the waiting queue and the active user of an
\* active session, in any state (the states between the commits of a
\* handoff included).
C7_QueuedNotClaimed ==
    \A e \in queue : ~Claimed(sessions, e.user_id)

\* An admin has started the first session ever, with a user whose message
\* had put them in the queue; the user has left the queue.
C7_Witness ==
    /\ out.res = "started"
    /\ Len(sessions) = 1
    /\ \E i \in DOMAIN messages : messages[i].user_id = out.uid
    /\ ~InQueue(queue, out.uid)
    /\ queue # {}

\* C8: end-session of an admin without an active session reports that
\* there is nothing to end and changes no table: no session row, no
\* dequeue, no seen flag.
C8_EndWithoutSession ==
    [][\A a \in ADMIN_IDS :
          (end_live_session(a) /\ ActiveRows(sessions, a) = {})
          => /\ out' = Out("no_active_session", a, NULL, NULL)
             /\ running' = NoTask
             /\ UNCHANGED dbvars]_vars

\* Nothing to end was reported while users wait with unseen messages.
C8_Witness ==
    /\ out.res = "no_active_session"
    /\ queue # {}
    /\ \E i \in DOMAIN messages : ~messages[i].seen_by_admin
    /\ \E i \in DOMAIN sessions : sessions[i].admin_id = out.actor

\* C9: end-session of an admin with an active session and a non-empty
\* queue dequeues the oldest entry, and when the handoff is reported the
\* ended row is inactive with ended_at set, the admin has exactly one
\* active session, a user session with the dequeued user, that user is not
\* in the queue and all their inbound messages are seen.
C9_EndHandsOff ==
    [][/\ \A a \in ADMIN_IDS :
             (end_live_session(a) /\ ActiveRows(sessions, a) # {})
             => /\ running' = Task("end_dequeue", a, NULL,
                                   Min(ActiveRows(sessions, a)), NoText)
                /\ queue' = queue
       /\ (running.pc = "end_dequeue" /\ queue # {})
             => /\ running'.pc = "end_activate"
                /\ running'.uid = next_in_queue(queue).user_id
                /\ \A e \in queue : next_in_queue(queue).created_at
                                       <= e.created_at
       /\ running.pc = "end_activate" => running'.pc = "end_mark_seen"
       /\ running.pc = "end_mark_seen"
             => /\ out' = OutEnded("handoff", running.actor, running.uid,
                                   running.sid)
                /\ ~sessions'[running.sid].is_active
                /\ sessions'[running.sid].ended_at
                /\ ActiveRows(sessions', running.actor) = {Len(sessions')}
                /\ sessions'[Len(sessions')].session_type = "user"
                /\ sessions'[Len(sessions')].active_user_id = running.uid
                /\ ~InQueue(queue', running.uid)
                /\ BacklogSeen(messages', running.uid)]_vars

\* A user session was ended and handed off to the oldest of two waiting
\* users, whose backlog is now seen; the other still waits.
C9_Witness ==
    /\ out.res = "handoff"
    /\ sessions[out.sid].session_type = "user"
    /\ sessions[out.sid].active_user_id # out.uid
    /\ \E i \in DOMAIN messages :
          messages[i].user_id = out.uid /\ messages[i].seen_by_admin
    /\ queue # {}

\* The admin has no active session / an active user session.
Idle(S, a) == ActiveRows(S, a) = {}

LiveWithUser(S, a) ==
    /\ Cardinality(ActiveRows(S, a)) = 1
    /\ \A i \in ActiveRows(S, a) : S[i].session_type = "user"

\* C10: an end-session of a live admin leaves the admin Idle exactly when
\* the queue is empty at the step that looks at it, and LiveWithUser
\* otherwise; at no commit in between has the admin two active sessions.
C10_EndStateMachine ==
    /\ [][/\ running.pc = "end_dequeue"
              => /\ queue = {} <=> out'.res = "no_users_in_queue"
                 /\ queue # {} <=> running'.pc = "end_activate"
          /\ \A a \in ADMIN_IDS :
                (out'.actor = a /\ out'.res \in {"no_users_in_queue",
                                                 "handoff"})
                => /\ out'.res = "no_users_in_queue"
                         => Idle(sessions', a) /\ queue' = {}
                   /\ out'.res = "handoff" => LiveWithUser(sessions', a)
                   /\ Idle(sessions', a) => queue' = {}]_vars
    /\ [](running # NoTask
            => Cardinality(ActiveRows(sessions, running.actor)) <= 1)

\* An end-session found the queue empty and left the admin Idle.
C10_Witness ==
    /\ out.res = "no_users_in_queue"
    /\ Idle(sessions, out.actor)
    /\ sessions[out.sid].ended_at
    /\ queue = {}
    /\ messages # <<>>

\* The replies of the dispatch of an inbound private message.
DispatchReplies == {"forward", "auto_reply", "no_reply"}

\* C4: routing exclusivity: when the router dispatches the message of a
\* user whom an active session claims, the message is stored seen and
\* forwarded to an admin whose session is over the user; the queue is
\* unchanged and no auto reply is sent.
C4_RoutingExclusive ==
    [][\A u \in DOMAIN users' :
          (/\ out'.res \in DispatchReplies
           /\ out'.uid = u
           /\ Claimed(sessions, u))
          => /\ out'.res = "forward"
             /\ \E i \in ActiveRows(sessions, out'.to) :
                   sessions[i].active_user_id = u
             /\ queue' = queue
             /\ messages' = Append(messages, MessageRow(u, FALSE, TRUE))]_vars

\* With an auto reply configured, the message of a claimed user was
\* forwarded and stored seen while another user waits in the queue.
C4_Witness ==
    /\ out.res = "forward"
    /\ auto_replies # <<>>
    /\ Claimed(sessions, out.uid)
    /\ messages[Len(messages)] = MessageRow(out.uid, FALSE, TRUE)
    /\ ~InQueue(queue, out.uid)
    /\ queue # {}

\* C6: a user has at most one row in the waiting queue, and the dispatch
\* of a message of a user who is in the queue leaves the queue, the row's
\* created_at included, unchanged, also when the handlers of two messages
\* of the user are in flight together.
C6_QueueIdempotent ==
    /\ [](\A e, f \in queue : e.user_id = f.user_id => e = f)
    /\ [][\A u \in DOMAIN users :
             (/\ out'.res \in {"auto_reply", "no_reply"}
              /\ out'.uid = u
              /\ InQueue(queue, u))
             => queue' = queue /\ clock' = clock]_vars

\* The second message of a queued user was dispatched while the handler
\* of a third one of the same user waits for its download.
C6_Witness ==
    /\ out.res \in {"auto_reply", "no_reply"}
    /\ InQueue(queue, out.uid)
    /\ Cardinality({i \in DOMAIN messages :
                       messages[i].user_id = out.uid}) = 2
    /\ \E t \in BagToSet(tasks) : t.pc = "hum_download" /\ t.uid = out.uid

\* Some row of U carries the username, compared in lower case.
KnownUsername(U, uname) ==
    \E i \in DOMAIN U :
        U[i].username # NoText /\ Lower(U[i].username) = Lower(uname)

\* C11: a start of a user session by username that opens a session: the
\* new active row is over the target user, who afterwards has no queue row
\* and whose inbound messages are all seen; the admin is warned that the
\* user cannot be reached exactly when the user's telegram_id is null; the
\* target is a row that existed, or, only when no row carried the username
\* in any case, a new row with null telegram_id.
C11_StartUserSession ==
    [][\A a \in ADMIN_IDS :
          (out'.actor = a /\ out'.res \in {"started", "started_not_contacted"})
          => LET u == out'.uid
             IN  /\ sessions' = Append(sessions, SessionRow(a, u, NULL, "user"))
                 /\ ~InQueue(queue', u)
                 /\ BacklogSeen(messages', u)
                 /\ out'.res = "started_not_contacted"
                       <=> users'[u].telegram_id = NULL
                 /\ \/ u \in DOMAIN users /\ users' = users
                    \/ /\ u = Len(users) + 1
                       /\ users' = Append(users, users'[u])
                       /\ users'[u].telegram_id = NULL
                       /\ ~KnownUsername(users, users'[u].username)]_vars

\* A session was started with a user known under another spelling of the
\* typed username ("Al" for "@al"), who had written before: the user is
\* reachable, out of the queue, and the message is seen.
C11_Witness ==
    /\ out.res = "started"
    /\ users[out.uid].username = <<"A", "l">>
    /\ users[out.uid].telegram_id # NULL
    /\ \E i \in DOMAIN messages :
          /\ messages[i].user_id = out.uid
          /\ ~messages[i].from_admin
          /\ messages[i].seen_by_admin
    /\ ~InQueue(queue, out.uid)

\* The handlers inside `async with session_lock`: the ones suspended at
\* their reply and the one that holds the event loop.
LockHolders ==
    BagCardinality([t \in {x \in BagToSet(tasks) :
                             x.pc \in {"end_reply", "start_live_reply"}}
                       |-> CopiesIn(t, tasks)])
    + (IF running = NoTask THEN 0 ELSE 1)

\* C12: the session mutations of an admin are serialized.  At most one
\* handler is inside session_lock; from the read of the active session to
\* the last commit of an end-session no other handler takes a step and no
\* suspended handler resumes; and every step that activates a session row
\* of an admin (start by username, start of a group session, handoff)
\* leaves that admin with exactly one active row, so two operations never
\* both find no active session and both activate one.
C12_Serialized ==
    /\ [](LockHolders <= 1 /\ (session_lock <=> LockHolders = 1))
    /\ [][/\ running # NoTask
              => /\ \/ running' = NoTask
                    \/ /\ running'.actor = running.actor
                       /\ running'.sid = running.sid
                 /\ session_lock'
                 /\ \A t \in BagToSet(tasks) :
                       CopiesIn(t, tasks') >= CopiesIn(t, tasks)
                 /\ \A i \in DOMAIN sessions : sessions'[i] = sessions[i]
          /\ \A a \in ADMIN_IDS :
                ActiveRows(sessions', a) \ ActiveRows(sessions, a) # {}
                => Cardinality(ActiveRows(sessions', a)) = 1]_vars

\* An admin ended a session and, while the reply of the end-session is on
\* its way and the lock still held, typed a username: the start waits for
\* the lock.
C12_Witness ==
    \E a \in ADMIN_IDS :
        /\ session_lock
        /\ \E i \in DOMAIN sessions :
              sessions[i].admin_id = a /\ sessions[i].ended_at
        /\ BagIn(Task("end_reply", a, NULL, NULL, NoText), tasks)
        /\ \E t \in BagToSet(tasks) : t.pc = "start_live_lock" /\ t.actor = a

\* The step stores the message of a user to the admins: the handler of an
\* inbound private message has reached its dispatch.
Stored(u) ==
    /\ Len(messages') = Len(messages) + 1
    /\ messages'[Len(messages')].user_id = u
    /\ ~messages'[Len(messages')].from_admin

\* C13: every inbound private message of a non-admin gets exactly one
\* dispatch decision.  If an active session claims the sender, the message
\* is forwarded to one admin, one whose active session is over the sender,
\* and the sender is neither enqueued nor answered by an auto reply;
\* otherwise it is forwarded to nobody, the sender is in the queue
\* afterwards and at most one auto reply is sent.
C13_OneDispatchDecision ==
    [][\A u \in DOMAIN users' :
          Stored(u)
          => /\ out'.uid = u
             /\ out'.res \in DispatchReplies
             /\ IF Claimed(sessions, u)
                THEN /\ out'.res = "forward"
                     /\ out'.to \in Claimers(sessions, u)
                     /\ out'.reply = NULL
                     /\ queue' = queue
                ELSE /\ out'.res \in {"auto_reply", "no_reply"}
                     /\ out'.to = NULL
                     /\ InQueue(queue', u)
                     /\ out'.res = "auto_reply"
                           <=> out'.reply \in DOMAIN auto_replies]_vars

\* Both admins have an active session over the sender: the message went to
\* one of them and the sender is not in the queue.
C13_Witness ==
    /\ out.res = "forward"
    /\ Claimers(sessions, out.uid) = ADMIN_IDS
    /\ out.to \in ADMIN_IDS
    /\ messages[Len(messages)] = MessageRow(out.uid, FALSE, TRUE)
    /\ queue = {}

\* The auto_replies rows whose keyword the text contains, in lower case.
Matching(AR, text) ==
    {i \in DOMAIN AR : IsSubstring(Lower(AR[i].keyword), Lower(text))}

\* The step is the dispatch of a message with this text (or caption): of
\* a text message, or of a media message whose download has returned.
Dispatches(u, text) ==
    /\ Stored(u)
    /\ \/ \E p \in PlatIds : \E uname \in TgUsernames[p] :
              handle_user_message(p, uname, text)
       \/ /\ handle_user_message_downloaded
          /\ \E t \in BagToSet(tasks) :
                /\ t.pc = "hum_download" /\ t.uid = u /\ t.text = text
                /\ tasks' = tasks (-) SetToBag({t})

\* C14: the dispatch of a message of a user whom no active session claims
\* and whose text or caption contains a configured keyword, compared in
\* lower case, sends one auto reply to that user, the reply of the first
\* matching row and not one per matching row, and the user is in the
\* queue afterwards.
C14_AutoReplyOnce ==
    [][\A u \in DOMAIN users' : \A text \in Texts :
          (/\ Dispatches(u, text)
           /\ ~Claimed(sessions, u)
           /\ Matching(auto_replies, text) # {})
          => /\ out' = OutReply(u, Min(Matching(auto_replies, text)))
             /\ InQueue(queue', u)]_vars

\* An auto reply went to a user nobody claims, who now waits in the queue
\* with the message unseen, while two keywords are configured.
C14_Witness ==
    /\ out.res = "auto_reply"
    /\ out.reply = 1
    /\ Len(auto_replies) = 2
    /\ ~Claimed(sessions, out.uid)
    /\ InQueue(queue, out.uid)
    /\ messages[Len(messages)] = MessageRow(out.uid, FALSE, FALSE)

\* db.query(User).filter_by(telegram_id=tg).first()
LookupById(U, tg) == First({i \in DOMAIN U : U[i].telegram_id = tg})

\* db.query(User).filter(func.lower(User.username) == N.lower()).first()
LookupByUsername(U, N) ==
    First({i \in DOMAIN U :
             U[i].username # NoText /\ Lower(U[i].username) = Lower(N)})

\* The step handles the first update of account p, which carries a
\* username equal, in lower case, to that of row i, a row without
\* telegram_id.
FirstContact(p, i) ==
    /\ users[i].telegram_id = NULL
    /\ users[i].username # NoText
    /\ LookupById(users, p) = NULL
    /\ \E uname \in RenamedUsernames[p], text \in Texts :
          /\ Lower(uname) = Lower(users[i].username)
          /\ handle_user_message(p, uname, text)

\* C15: identity reconciliation: the first update of account P whose
\* username equals, ignoring case, the username N of a row without
\* telegram_id attaches P to that row and adds no row; afterwards the
\* look-up by telegram_id P and the look-up by username N both give that
\* row.
C15_Reconciliation ==
    [][\A p \in PlatIds : \A i \in DOMAIN users :
          FirstContact(p, i)
          => /\ Len(users') = Len(users)
             /\ users'[i].telegram_id = p
             /\ LookupById(users', p) = i
             /\ LookupByUsername(users', users[i].username) = i]_vars

\* C16: a button pressed by an account that is not in ADMIN_IDS, whatever
\* the button (start of a group session, end of a session, purge,
\* broadcast, auto replies, ...), is answered "Unauthorized" and leaves the
\* sessions, the queue, the messages, the auto replies and the pending
\* state of every admin unchanged.
C16_Unauthorized ==
    [][\A user_id \in PlatIds : \A q \in Callbacks :
          callback_query_handler(user_id, q)
          => /\ out' = Out("unauthorized", user_id, NULL, NULL)
             /\ UNCHANGED <<sessions, queue, messages, auto_replies,
                            admin_state>>
             /\ UNCHANGED <<users, groups, group_messages, session_lock,
                            tasks, running>>]_vars

\* A button of account 11 was refused while an admin holds a session,
\* awaits a username, and a user waits with a message: there was state
\* the button would have changed.
C16_Witness ==
    /\ out.res = "unauthorized"
    /\ out.actor \in PlatIds
    /\ \E i \in DOMAIN sessions : sessions[i].is_active
    /\ \E a \in ADMIN_IDS : admin_state[a] # NoState
    /\ queue # {}
    /\ messages # <<>>

\* C17: the message of an admin whose active session is over a user
\* without telegram_id is stored with from_admin = true, no send to the
\* user is started, the admin is told that it is saved but cannot be
\* delivered, and the session stays as it is.
C17_Undeliverable ==
    [][\A a \in ADMIN_IDS :
          LET sid == get_active_session(sessions, a)
          IN  (/\ handle_admin_message(a)
               /\ UserSession(sessions, users, sid)
               /\ ~GroupSession(sessions, groups, sid)
               /\ users[sessions[sid].active_user_id].telegram_id = NULL)
              => LET uid == sessions[sid].active_user_id
                 IN  /\ messages' = Append(messages,
                                           MessageRow(uid, TRUE, TRUE))
                     /\ tasks' = tasks
                     /\ out' = Out("saved_undeliverable", a, uid, NULL)
                     /\ sessions' = sessions
                     /\ sessions'[sid].is_active]_vars

\* The admin wrote to a user known by username only: the message is the
\* last of the log, nothing is in flight, the session is still active.
C17_Witness ==
    /\ out.res = "saved_undeliverable"
    /\ users[out.uid].telegram_id = NULL
    /\ messages[Len(messages)] = MessageRow(out.uid, TRUE, TRUE)
    /\ tasks = EmptyBag
    /\ \E i \in ActiveRows(sessions, out.actor) :
          sessions[i].active_user_id = out.uid

\* C18: a send of an admin's message that fails undoes nothing: the step
\* that reports the failure to the admin leaves the messages, the
\* stored Message included, the sessions and the queue as they are, and
\* starts no other send.
C18_FailedSendKeepsState ==
    [][\A t \in BagToSet(tasks) :
          (/\ t.pc = "ham_send"
           /\ tasks' (+) SetToBag({t}) = tasks
           /\ out'.res = "send_error")
          => /\ out' = Out("send_error", t.actor, t.uid, NULL)
             /\ UNCHANGED <<messages, sessions, queue, users>>]_vars

\* The send to the user of the session failed: the Message of the admin
\* is in the log, the session is active, another user waits.
C18_Witness ==
    /\ out.res = "send_error"
    /\ out.uid # NULL
    /\ \E i \in DOMAIN messages : messages[i] = MessageRow(out.uid, TRUE, TRUE)
    /\ \E i \in ActiveRows(sessions, out.actor) :
          sessions[i].active_user_id = out.uid
    /\ queue # {}
    /\ tasks = EmptyBag

\* The step resolves the send of the broadcast t, a handler suspended in
\* the send to recipients[t.uid].
BroadcastStep(t) ==
    /\ t.pc = "broadcast_send"
    /\ CopiesIn(t, tasks') < CopiesIn(t, tasks)
    /\ out'.res \in {"broadcast_sent", "broadcast_failed"}
    /\ out'.actor = t.actor
    /\ out'.uid = t.uid

\* The users of the snapshot that have a telegram_id.
Reachable(recipients) == {i \in DOMAIN recipients : recipients[i] # NULL}

\* C19: a broadcast attempts delivery only to users that have a
\* telegram_id: no send goes to a user whose telegram_id is null, and the
\* counts reported at the end, sent plus failed, cover the users with a
\* telegram_id only.
C19_BroadcastSkipsUnreachable ==
    [][\A t \in BagToSet(tasks) :
          BroadcastStep(t)
          => /\ t.recipients[t.uid] # NULL
             /\ out'.done => out'.sent + out'.failed
                                = Cardinality(Reachable(t.recipients))]_vars

\* A broadcast of an admin is in its loop.
Broadcasting == \E t \in BagToSet(tasks) : t.pc = "broadcast_send"

\* The counts of a broadcast were reported.
BroadcastComplete ==
    out.res \in {"broadcast_sent", "broadcast_failed"} /\ out.done

\* C20: a broadcast never aborts on a failure.  Whatever sends fail, the
\* users of the snapshot are attempted one after the other, each once:
\* after the attempt of user k, counted as sent or as failed, the handler
\* goes on with user k + 1 or, after the last user, reports counts whose
\* sum is the number of users attempted; and every broadcast in its loop
\* comes to report its counts.
C20_BroadcastNeverAborts ==
    /\ [][\A t \in BagToSet(tasks) :
             BroadcastStep(t)
             => /\ out'.sent + out'.failed = t.uid
                /\ out'.sent \in {t.success_count, t.success_count + 1}
                /\ out'.failed \in {t.fail_count, t.fail_count + 1}
                /\ out'.done <=> t.uid = Len(t.recipients)
                /\ ~out'.done
                      => BagIn(BroadcastTask(t.actor, t.recipients, t.uid + 1,
                                             out'.sent, out'.failed), tasks')
                /\ out'.done
                      => /\ out'.sent + out'.failed = Len(t.recipients)
                         /\ BagIn(Task("broadcast_reply", t.actor, NULL, NULL,
                                       NoText), tasks')]_vars
    /\ Broadcasting ~> BroadcastComplete

\* A broadcast to three users has reported its counts, with a failed send
\* before a successful one: the failure did not end the loop.
C20_Witness ==
    /\ BroadcastComplete
    /\ out.uid = 3
    /\ out.res = "broadcast_sent"
    /\ out.failed >= 1
    /\ out.sent + out.failed = 3

(***************************************************************************)
(* Pending states of the admin menu (SpecState).                           *)
(***************************************************************************)
\* The step hands a private message of admin a to the session path: a send
\* to the counterparty is on its way, or the admin got the answer of that
\* path.
SessionPath(a) ==
    \/ \E t \in BagToSet(tasks') :
          /\ t.actor = a
          /\ t.pc \in {"ham_send", "ham_group_send"}
          /\ CopiesIn(t, tasks') > CopiesIn(t, tasks)
    \/ /\ out'.actor = a
       /\ out'.res \in {"saved_undeliverable", "no_session"}

\* The step stores a message of the admin to the user of a's session.
StoredForSession(a) ==
    LET sid == get_active_session(sessions, a)
    IN  /\ sid # NULL
        /\ Len(messages') = Len(messages) + 1
        /\ messages'[Len(messages')].from_admin
        /\ messages'[Len(messages')].user_id = sessions[sid].active_user_id

\* C21: interactive admin state takes precedence over live routing: while
\* admin_state holds a pending state of an admin, no private message of
\* that admin is forwarded to the counterparty of the admin's session nor
\* stored as a message of that session, and none is answered by the
\* session path; it is handled by the operation of the pending state.
C21_StateTakesPrecedence ==
    [][\A a \in ADMIN_IDS :
          admin_state[a] # NoState
              => ~SessionPath(a) /\ ~StoredForSession(a)]_vars

\* Admin 1, live with a user, answered a pending state: the operation of
\* the state replied, and no message of the admin was stored.
C21_Witness ==
    /\ get_active_session(sessions, 1) # NULL
    /\ out.actor = 1
    /\ out.res \in {"history", "auto_reply_added", "auto_reply_not_found"}
    /\ \A i \in DOMAIN messages : ~messages[i].from_admin

\* The pending states whose handler ends in the suspended position pc.
ConsumedBy(pc) ==
    CASE pc = "start_live_reply" -> {"username_live"}
      [] pc = "broadcast_reply" -> {"broadcast"}
      [] pc = "state_reply" -> {"username_view", "username_delete",
                                "auto_reply_text",
                                "auto_reply_delete_keyword"}
      [] OTHER -> {}

\* The step is the return of the suspended handler t of a pending state,
\* the step that runs `del admin_state[admin_id]`.
Clears(t) ==
    /\ ConsumedBy(t.pc) # {}
    /\ CopiesIn(t, tasks') < CopiesIn(t, tasks)

\* C22: a pending state is cleared after one matching reply and consumed
\* at most once, also under concurrent updates of the admin: the handler
\* that consumed a pending state and returns finds that state still in
\* admin_state (no other message consumed and cleared it, no click
\* replaced it by a newer one) and clears exactly it.
C22_ClearedOnce ==
    [][\A t \in BagToSet(tasks) :
          Clears(t) =>
              /\ admin_state[t.actor].awaiting \in ConsumedBy(t.pc)
              /\ admin_state'[t.actor] = NoState]_vars

(***************************************************************************)
(* End-to-end scenarios (Spec).                                            *)
(***************************************************************************)
\* The platform ids of the users table.
PlatformIds(U) == {U[i].telegram_id : i \in DOMAIN U} \ {NULL}

\* The step is the first update of account p, while row u, created by
\* username only and never reached, carries the username of p and is the
\* user of an active session.
FirstContactOfTarget(p, u) ==
    /\ p \notin PlatformIds(users)
    /\ p \in PlatformIds(users')
    /\ users[u].telegram_id = NULL
    /\ users[u].username # NoText
    /\ \E uname \in TgUsernames[p] \ {NoText} :
          Lower(users[u].username) = Lower(uname)
    /\ Claimed(sessions, u)

\* C23: an admin starts a session with a username that never contacted the
\* service; when the account of that username then sends its first message,
\* the message is attributed to the user row the session is over (no row is
\* added), stored with seen_by_admin = true, forwarded to an admin whose
\* session is over the user, and the queue is unchanged; an end-session
\* that finds the queue empty reports "no users in queue" and leaves the
\* admin Idle.
C23_TargetWritesFirst ==
    [][/\ \A p \in {11, 12} : \A u \in DOMAIN users :
             FirstContactOfTarget(p, u)
             => /\ Len(users') = Len(users)
                /\ users'[u].telegram_id = p
                /\ Stored(u)
                /\ messages'[Len(messages')].seen_by_admin
                /\ out'.res = "forward"
                /\ out'.uid = u
                /\ out'.to \in Claimers(sessions, u)
                /\ queue' = queue
                /\ ~InQueue(queue', u)
       /\ (running.pc = "end_dequeue" /\ queue = {})
             => /\ out'.res = "no_users_in_queue"
                /\ out'.actor = running.actor
                /\ Idle(sessions', running.actor)]_vars

\* The whole scenario ran: the one user, created by "@al" and reached as
\* account 11 ("Al"), wrote one message, stored seen; the admin ended the
\* session over the user with an empty queue and is Idle; no queue row was
\* ever inserted (the clock of the queue stamps did not move).
C23_Witness ==
    /\ out.res = "no_users_in_queue"
    /\ Idle(sessions, out.actor)
    /\ Len(sessions) = 1
    /\ sessions[1].active_user_id = 1
    /\ users = <<UserRow(11, <<"A", "l">>)>>
    /\ messages = <<MessageRow(1, FALSE, TRUE)>>
    /\ queue = {}
    /\ clock = 1

\* The queue rows of the users other than uid.
RowsOfOthers(Q, uid) == {e \in Q : e.user_id # uid}

\* C24: users X then Y write while no session claims them and no keyword
\* matches: each is stored unseen and enqueued behind the users who wait,
\* without an auto reply.  An explicit start of a session with Y by an Idle
\* admin takes the row of Y out of the queue and leaves the other rows as
\* they are.  When the admin ends the session, the user who waits longest
\* (X) is dequeued and a new session over that user is opened for the same
\* admin.
C24_QueueScenario ==
    [][/\ \A u \in DOMAIN users' :
             (Stored(u) /\ ~Claimed(sessions, u) /\ auto_replies = <<>>)
             => /\ out'.res = "no_reply"
                /\ ~messages'[Len(messages')].seen_by_admin
                /\ InQueue(queue', u)
                /\ RowsOfOthers(queue', u) = RowsOfOthers(queue, u)
                /\ ~InQueue(queue, u)
                      => \A e \in queue :
                            e.created_at < StampOf(queue', u)
       /\ \A a \in ADMIN_IDS :
             (out'.actor = a /\ out'.res = "started")
             => /\ Idle(sessions, a)
                /\ LiveWithUser(sessions', a)
                /\ queue' = RowsOfOthers(queue, out'.uid)
       /\ (running.pc = "end_dequeue" /\ queue # {})
             => /\ running'.pc = "end_activate"
                /\ running'.actor = running.actor
                /\ InQueue(queue, running'.uid)
                /\ \A e \in queue :
                      StampOf(queue, running'.uid) <= e.created_at
                /\ queue' = RowsOfOthers(queue, running'.uid)
       /\ \A a \in ADMIN_IDS :
             (out'.actor = a /\ out'.res = "handoff")
             => /\ ~sessions'[out'.sid].is_active
                /\ sessions'[out'.sid].admin_id = a
                /\ sessions'[Len(sessions')]
                      = SessionRow(a, out'.uid, NULL, "user")
                /\ ActiveRows(sessions', a) = {Len(sessions')}]_vars

\* The whole scenario ran: X (row 1) and then Y (row 2, account 11) wrote
\* and were enqueued (two queue stamps were given out); the admin started
\* the first session with Y and ended it, and the handoff opened the second
\* session with X; nobody waits.
C24_Witness ==
    /\ out.res = "handoff"
    /\ out.uid = 1
    /\ Len(users) = 2
    /\ users[2].telegram_id = 11
    /\ messages = <<MessageRow(1, FALSE, TRUE), MessageRow(2, FALSE, TRUE)>>
    /\ clock = 3
    /\ Len(sessions) = 2
    /\ sessions[1].active_user_id = 2 /\ ~sessions[1].is_active
    /\ sessions[2].active_user_id = 1 /\ sessions[2].is_active
    /\ sessions[1].admin_id = sessions[2].admin_id
    /\ queue = {}

(***************************************************************************)
(* The life of a session (SpecPersist).                                    *)
(***************************************************************************)
\* The step is the deactivation of an end-session of admin a.
OwnEnd(a) == running'.pc = "end_dequeue" /\ running'.actor = a

\* The step is a start of a group session by admin a.
OwnStart(a) == out'.res = "group_started" /\ out'.actor = a

\* Session row i is the same after the step.
Kept(i) == sessions'[i] = sessions[i]

\* Session row i was ended by the step.
Ended(i) ==
    sessions'[i] = [sessions[i] EXCEPT !.is_active = FALSE, !.ended_at = TRUE]

\* C25: sessions persist until explicitly ended: an active session of an
\* admin is deactivated only by that admin's own end-session or
\* start-session; every other step (user and group messages, admin
\* messages, broadcasts, auto reply management, actions of other admins)
\* leaves the row active and unchanged.
C25_OnlyOwnerEnds ==
    [][\A i \in DOMAIN sessions :
          sessions[i].is_active
          => \/ Kept(i)
             \/ /\ OwnEnd(sessions[i].admin_id)
                   \/ OwnStart(sessions[i].admin_id)
                /\ Ended(i)]_vars

\* C26: an end-session dequeues and hands off only when the session it
\* ended was a user session: after the end of a group session the queue is
\* as it was and no user session is opened.
C26_GroupEndKeepsQueue ==
    [][(running.pc = "end_dequeue"
          /\ sessions[running.sid].session_type = "group")
          => /\ queue' = queue
             /\ running'.pc # "end_activate"
             /\ out'.res = "no_users_in_queue"]_vars

(***************************************************************************)
(* The auto reply matcher (SpecRoute).                                     *)
(***************************************************************************)
\* The keyword of row i, in lower case, is part of the text in lower case.
Contains(AR, i, text) == IsSubstring(Lower(AR[i].keyword), Lower(text))

\* C27: the dispatch of a message of an unclaimed user sends no auto reply
\* when the message has no text or caption, or when no keyword is, in
\* lower case, part of the lowercased text; otherwise it sends the reply of
\* a matching row, the first one in the order of the table.  In both cases,
\* also without text, the user is in the queue afterwards.
C27_AutoReplyMatcher ==
    [][\A u \in DOMAIN users' : \A text \in Texts \cup {NoText} :
          (Dispatches(u, text) /\ ~Claimed(sessions, u))
          => /\ InQueue(queue', u)
             /\ out'.uid = u
             /\ IF text = NoText
                   \/ \A i \in DOMAIN auto_replies :
                         ~Contains(auto_replies, i, text)
                THEN out'.res = "no_reply" /\ out'.reply = NULL
                ELSE /\ out'.res = "auto_reply"
                     /\ out'.reply \in DOMAIN auto_replies
                     /\ Contains(auto_replies, out'.reply, text)
                     /\ \A i \in 1..(out'.reply - 1) :
                           ~Contains(auto_replies, i, text)]_vars

\* A user wrote twice while nobody claimed them: the second message, whose
\* text both keywords match, was answered with the reply of the first row;
\* both messages are unseen and the user waits.
C27_Witness ==
    /\ out.res = "auto_reply"
    /\ out.reply = 1
    /\ \A i \in DOMAIN auto_replies :
          Contains(auto_replies, i, <<"H", "e", "l", "p">>)
    /\ messages = <<MessageRow(out.uid, FALSE, FALSE),
                    MessageRow(out.uid, FALSE, FALSE)>>
    /\ InQueue(queue, out.uid)

(***************************************************************************)
(* Group chats (SpecGroup).                                                *)
(***************************************************************************)
\* The step logs a message of group g.
Logged(g) ==
    /\ Len(group_messages') = Len(group_messages) + 1
    /\ group_messages'[Len(group_messages')].group_id = g
    /\ \A i \in DOMAIN group_messages : group_messages'[i] = group_messages[i]

\* Admin a is live in a group session over group g.
LiveWithGroup(S, a, g) ==
    \E i \in ActiveRows(S, a) :
        S[i].session_type = "group" /\ S[i].active_group_id = g

\* C28: a text message in a group is logged; it is forwarded to an admin
\* only if that admin has an active group session over this group, and it
\* is forwarded whenever some admin has one; a forwarded message gets no
\* leaderboard reply, also when it is the leaderboard command; the step of
\* a group message leaves users, messages, queue and sessions as they are
\* and sends no auto reply.
C28_GroupRouting ==
    [][/\ \A g \in DOMAIN groups' :
             Logged(g)
             => /\ UNCHANGED <<users, messages, sessions, queue, clock,
                               auto_replies, admin_state, tasks>>
                /\ out'.res \in {"group_forward", "leaderboard", "none"}
                /\ out'.res = "group_forward"
                      <=> \E a \in ADMIN_IDS : LiveWithGroup(sessions, a, g)
                /\ out'.res = "group_forward"
                      => /\ out'.uid = g
                         /\ LiveWithGroup(sessions, out'.to, g)
       /\ out'.res \in {"group_forward", "leaderboard"}
             => \E g \in DOMAIN groups' : Logged(g) /\ out'.uid = g
       /\ \A chat \in {21, 22} : \A p \in PlatIds :
             (/\ handle_group_message(chat, p, LeaderboardCommand)
              /\ \E g \in DOMAIN groups :
                    /\ groups[g].telegram_id = chat
                    /\ \E a \in ADMIN_IDS : LiveWithGroup(sessions, a, g))
             => out'.res = "group_forward"]_vars

\* A message of the second group went to the admin who is live with that
\* group, while the other admin is live with the first group and a user
\* waits in the queue.
C28_Witness ==
    /\ out.res = "group_forward"
    /\ out.uid = 2
    /\ LiveWithGroup(sessions, out.to, 2)
    /\ \E a \in ADMIN_IDS : LiveWithGroup(sessions, a, 1)
    /\ Len(group_messages) = 3
    /\ queue # {}

(***************************************************************************)
(* The queue and the seen flags (SpecSeen).                                *)
(***************************************************************************)
\* No handler is suspended or between two commits.
Quiescent == running = NoTask /\ tasks = EmptyBag

\* User u has a message to the admins that no admin has seen.
Unseen(M, u) ==
    \E i \in DOMAIN M :
        M[i].user_id = u /\ ~M[i].from_admin /\ ~M[i].seen_by_admin

\* C29: in every state in which no update is being processed, the users
\* in the waiting queue are the users with at least one message to the
\* admins whose seen_by_admin is false; dispatch, explicit start, handoff,
\* purge and delete by username keep it so.
C29_QueuedIffUnseen ==
    Quiescent
    => /\ \A e \in queue : e.user_id \in DOMAIN users
       /\ \A u \in DOMAIN users : InQueue(queue, u) <=> Unseen(messages, u)

\* After a handoff and the delete of another chat, at rest: the user of the
\* ended session wrote again and waits with an unseen message, the user
\* handed off does not wait.
C29_Witness ==
    /\ Quiescent
    /\ Len(sessions) = 2
    /\ \E u \in DOMAIN users :
          /\ sessions[1].active_user_id = u
          /\ InQueue(queue, u)
          /\ Unseen(messages, u)
    /\ \E u \in DOMAIN users :
          /\ sessions[2].active_user_id = u /\ sessions[2].is_active
          /\ ~InQueue(queue, u)
          /\ ~Unseen(messages, u)

\* Some session row, active or ended, is over user u.
Counterparty(S, u) == \E j \in DOMAIN S : S[j].active_user_id = u

\* C30: seen_by_admin of a message to the admins only goes from false to
\* true, and only in the step that opens a session over the user of the
\* message, by an explicit start or as the last commit of a handoff; a
\* message is stored as seen only when it is forwarded to an admin whose
\* session is over its user; deletes leave the flags of the other rows;
\* and no message is seen whose user was never the user of a session.
C30_SeenJustified ==
    /\ [][/\ Len(messages') >= Len(messages)
             => \A i \in DOMAIN messages :
                   /\ messages'[i].user_id = messages[i].user_id
                   /\ messages'[i].from_admin = messages[i].from_admin
                   /\ messages[i].seen_by_admin => messages'[i].seen_by_admin
                   /\ (/\ ~messages[i].from_admin
                       /\ messages'[i].seen_by_admin
                       /\ ~messages[i].seen_by_admin)
                      => /\ Claimed(sessions', messages[i].user_id)
                         /\ out'.res \in {"started", "handoff"}
                         /\ out'.uid = messages[i].user_id
          /\ \A u \in DOMAIN users' :
                (Stored(u) /\ messages'[Len(messages')].seen_by_admin)
                => /\ Claimed(sessions, u)
                   /\ out'.res = "forward"
                   /\ out'.to \in ADMIN_IDS
          /\ Len(messages') < Len(messages)
             => \/ messages' = <<>>
                \/ \E u \in DOMAIN users :
                      messages' = SelectSeq(messages,
                                            LAMBDA m : m.user_id # u)]_vars
    /\ [](\A i \in DOMAIN messages :
            (~messages[i].from_admin /\ messages[i].seen_by_admin)
            => Counterparty(sessions, messages[i].user_id))

\* The first session ever was started with a user who had written: the
\* message, stored unseen, is seen now, while the message of the user who
\* still waits stays unseen.
C30_Witness ==
    /\ out.res = "started"
    /\ Len(sessions) = 1
    /\ Len(messages) = 2
    /\ \E i, j \in DOMAIN messages :
          /\ messages[i] = MessageRow(out.uid, FALSE, TRUE)
          /\ messages[j].user_id # out.uid
          /\ ~messages[j].from_admin
          /\ ~messages[j].seen_by_admin
    /\ \E e \in queue : e.user_id # out.uid

(***************************************************************************)
(* Session rows (SpecPersist).                                             *)
(***************************************************************************)
\* C31: every session row is well formed in every reachable state, the
\* states between the commits of a handler included: exactly one of
\* active_user_id and active_group_id is set, session_type is "user"
\* exactly when active_user_id is set and "group" exactly when
\* active_group_id is set, and ended_at is set exactly when is_active is
\* false.
C31_SessionRowsWellFormed ==
    \A i \in DOMAIN sessions :
        /\ (sessions[i].active_user_id # NULL)
              # (sessions[i].active_group_id # NULL)
        /\ sessions[i].session_type \in {"user", "group"}
        /\ sessions[i].session_type = "user"
              <=> sessions[i].active_user_id # NULL
        /\ sessions[i].session_type = "group"
              <=> sessions[i].active_group_id # NULL
        /\ sessions[i].ended_at <=> ~sessions[i].is_active

\* A user session that was replaced by a group session of the same admin,
\* after a message was stored: the first row is ended, the second active.
C31_Witness ==
    /\ Len(sessions) = 2
    /\ sessions[1].session_type = "user" /\ ~sessions[1].is_active
    /\ sessions[2].session_type = "group" /\ sessions[2].is_active
    /\ sessions[1].admin_id = sessions[2].admin_id
    /\ messages # <<>>

(***************************************************************************)
(* Purge and delete by username (SpecSeen).                                *)
(***************************************************************************)
\* The rows of M of the users other than u, in their order.
MessagesOfOthers(M, u) == SelectSeq(M, LAMBDA m : m.user_id # u)

\* C32: the purge of all chats by any admin leaves no stored message, an
\* empty queue and every admin Idle, not only the admin who purged; the
\* delete of the chat of a user by username removes the messages and the
\* queue row of that user, keeps those of the others, and leaves every
\* session row, an active session over that user included, as it is.
C32_PurgeAndDelete ==
    [][/\ out'.res = "all_deleted"
             => /\ messages' = <<>>
                /\ queue' = {}
                /\ \A a \in ADMIN_IDS : Idle(sessions', a)
                /\ Len(sessions') = Len(sessions)
                /\ users' = users
       /\ out'.res = "user_deleted"
             => /\ out'.uid \in DOMAIN users
                /\ messages' = MessagesOfOthers(messages, out'.uid)
                /\ queue' = RowsOfOthers(queue, out'.uid)
                /\ sessions' = sessions
                /\ users' = users]_vars

\* The chat of a user was deleted while an admin is live with that user:
\* the session is still active, the user has no message and no queue row,
\* and the message of the other user, who waits, is kept.
C32_Witness ==
    /\ out.res = "user_deleted"
    /\ Claimed(sessions, out.uid)
    /\ \A i \in DOMAIN messages : messages[i].user_id # out.uid
    /\ ~InQueue(queue, out.uid)
    /\ messages # <<>>
    /\ queue # {}

(***************************************************************************)
(* Service of the queue (SpecServe)                                        *)
(***************************************************************************)
\* The number of users who wait in front of user uid.
Ahead(Q, uid) ==
    Cardinality({e \in Q : e.created_at < StampOf(Q, uid)})

\* An admin has an active session, or is between the commits of ending one.
SomeAdminLive ==
    \/ running # NoTask
    \/ \E a \in ADMIN_IDS : ~Idle(sessions, a)

\* The step of end_live_session that takes a user out of the queue.
HandoffStep == running.pc = "end_dequeue" /\ running'.pc = "end_activate"

\* Every step, seen from a user who waits: a handoff serves the user, who
\* then has nobody in front, or takes away one of the users in front; any
\* other step keeps the row of the user and lets nobody in front, unless it
\* starts a session with the user.
WaitsInOrder(u) ==
    IF HandoffStep
    THEN \/ /\ running'.uid = u
            /\ Ahead(queue, u) = 0
            /\ ~InQueue(queue', u)
         \/ /\ running'.uid # u
            /\ InQueue(queue', u)
            /\ StampOf(queue', u) = StampOf(queue, u)
            /\ Ahead(queue', u) = Ahead(queue, u) - 1
    ELSE \/ /\ InQueue(queue', u)
            /\ StampOf(queue', u) = StampOf(queue, u)
            /\ Ahead(queue', u) <= Ahead(queue, u)
         \/ /\ ~InQueue(queue', u)
            /\ Claimed(sessions', u)

\* The statement as written: every user who waits is served at last,
\* whether or not an admin is live.
C33_EveryQueuedServed ==
    \A u \in 1..ServeUsers : InQueue(queue, u) ~> Claimed(sessions, u)

\* C33: no starvation, absent purges and deletes: every handoff takes the
\* user who waits longest, so that a user with k users in front has k - 1
\* in front after a handoff that serves another user and is served by the
\* handoff that finds nobody in front, k + 1 handoffs at most; the row of
\* a user who waits keeps its place, so that nobody who arrives later gets
\* in front; the user taken out of the queue becomes the counterparty of
\* an active session at the next commit.  As long as some admin is live,
\* and the admins who are live end their sessions, every user who waits is
\* served at last.
C33_NoStarvation ==
    /\ [][/\ \A u \in DOMAIN users : InQueue(queue, u) => WaitsInOrder(u)
          /\ running.pc = "end_activate"
                => Claimed(sessions', running.uid)]_vars
    /\ \A u \in 1..ServeUsers :
          (InQueue(queue, u) /\ SomeAdminLive) ~> Claimed(sessions, u)

\* The third user to arrive is handed to an admin after the first and the
\* second, who were in front, have been served; nobody waits any more.
C33_Witness ==
    /\ out.res = "handoff"
    /\ out.uid = 3
    /\ queue = {}
    /\ Len(sessions) >= 3
    /\ sessions[Len(sessions)].is_active
    /\ sessions[Len(sessions)].active_user_id = 3
    /\ \E i, j \in DOMAIN sessions :
          /\ i < j
          /\ j < Len(sessions)
          /\ sessions[i].active_user_id = 1
          /\ sessions[j].active_user_id = 2
====
